---- MODULE Spec2Model ----
(***************************************************************************)
(* Wallet-connection handshake of AlphaTradeBot:                           *)
(*   services/wallet-connection.js (WalletConnectionService) and the       *)
(*   connection / wallet operations of services/database.js (Database).    *)
(* One action per segment of an async handler between two awaits; the      *)
(* Store call that ends a segment is executed at the start of the next.    *)
(***************************************************************************)
EXTENDS Integers, Sequences, FiniteSets, TLC

\* ------------------------------------------------------------------ bounds
MaxTime == 2
MaxCreate == 2
MaxUser == 1
MaxChat == 1
MaxCallback == 2
MaxConnect == 3

\* getConnectionTimeoutMs(), in clock ticks
TimeoutTicks == 1

Users == 1..MaxUser
\* a user of the database who makes no call
OtherUser == MaxUser + 1
WalletOwners == Users \cup {OtherUser}
Chats == 1..MaxChat
CreateCalls == 1..MaxCreate
Callbacks == 1..MaxCallback
\* crypto.randomBytes(16): one fresh identifier per initiateWalletConnection
ConnIds == CreateCalls
\* ed25519 public keys of the wallets that can sign
Keys == {"walletA", "walletB"}
NoWallet == "none"

VARIABLES
    now,            \* Date.now()
    memoryMode,     \* database.memoryMode
    secretSet,      \* SESSION_SECRET / JWT_SECRET / ENCRYPTION_KEY configured
    connections,    \* database.connections (Map of the volatile backend)
    dbConnections,  \* documents of the 'connections' collection
    wallets,        \* wallet records per user of the selected backend
    dbWallets,      \* wallet records per user of a second instance of the
                    \* service, on the document store (SpecBoth)
    create,         \* createConnectionRequest calls: position and locals
    cb,             \* handleWalletCallback calls: position and locals
    sweepPc,        \* position of the cleanup job's callback
    webUrlOk,       \* TELEGRAM_WEB_APP_URL is a public HTTP(S) URL
    request,        \* createConnectionRequest calls: the arguments as passed
                    \* and the error thrown
    cancelReturned, \* connectionIds of the pending records for which
                    \* cancelConnection has returned true
    statusCall,     \* checkConnectionStatus call: position and locals
    ledger,         \* balance and transactions of the wallet records, by
                    \* wallet id
    db,             \* database.db is set
    connectPromise, \* database.connectPromise: the connect() call whose
                    \* attempt it holds, 0 for null
    connectCall     \* connect() and bootstrap() calls: position and result

vars == <<now, memoryMode, secretSet, connections, dbConnections, wallets,
          dbWallets, create, cb, sweepPc, webUrlOk, request, cancelReturned,
          statusCall, ledger, db, connectPromise, connectCall>>

\* the fields of the Database object that only connect() writes
connectVars == <<db, connectPromise, connectCall>>

\* ------------------------------------------------------------ token codec
DevSecret == "connection-dev-secret"
EnvSecret == "configured-secret"

getConnectionTokenSecret == IF secretSet THEN EnvSecret ELSE DevSecret

\* crypto.createHmac('sha256', key).update(data).digest(): only the holder
\* of key can produce it, and it is bound to data
Hmac(key, data) == [key |-> key, data |-> data]

generateConnectionToken(connectionId, userId, chatId, expiresAt) ==
    LET payload == [connectionId |-> connectionId, userId |-> userId,
                    chatId |-> chatId, exp |-> expiresAt]
    IN  [encodedPayload |-> payload,
         signature |-> Hmac(getConnectionTokenSecret, payload)]

\* the outcomes of the verification: the payload (ok, with its exp), the
\* code's null, and an exception
TokenNull == [ok |-> FALSE, exp |-> 0, threw |-> FALSE]
TokenThrow == [ok |-> FALSE, exp |-> 0, threw |-> TRUE]

\* a token is `${encodedPayload}.${signature}`; a value that is not such a
\* string carries which of the tests of line 104 it fails
TokenForm(token) ==
    IF "form" \in DOMAIN token THEN token.form ELSE "delimited"

\* signature.length; the digest of sha256 in base64url has 43 characters
DigestLength == 43
SignatureLength(signature) ==
    IF "length" \in DOMAIN signature THEN signature.length ELSE DigestLength

\* Buffer.from(signature).length: larger than signature.length when the
\* string holds a character outside ASCII
SignatureBytes(signature) ==
    IF "bytes" \in DOMAIN signature THEN signature.bytes
    ELSE SignatureLength(signature)

\* JSON.parse(Buffer.from(encodedPayload, 'base64url')) returns an object
ParsesToObject(encodedPayload) == "garbage" \notin DOMAIN encodedPayload

\* the try block of decodeAndVerifyConnectionToken
VerifyTokenBody(token, expected) ==
    LET expectedSignature == Hmac(getConnectionTokenSecret, token.encodedPayload)
        signature == token.signature
        payload == token.encodedPayload
    IN  IF TokenForm(token) # "delimited" THEN TokenNull
        ELSE IF SignatureLength(signature) = 0 THEN TokenNull
        ELSE IF SignatureLength(signature) # DigestLength THEN TokenNull
        ELSE IF SignatureBytes(signature) # DigestLength THEN TokenThrow
        ELSE IF signature # expectedSignature THEN TokenNull
        ELSE IF ~ParsesToObject(payload) THEN TokenThrow
        ELSE IF now > payload.exp THEN TokenNull
        ELSE IF /\ payload.connectionId = expected.connectionId
                /\ payload.userId = expected.userId
                /\ payload.chatId = expected.chatId
        THEN [ok |-> TRUE, exp |-> payload.exp, threw |-> FALSE]
        ELSE TokenNull

\* a verification without the catch of line 134
decodeAndVerifyConnectionToken_NoCatch(token, expected) ==
    VerifyTokenBody(token, expected)

\* a verification that does not compare the chatId
decodeAndVerifyConnectionToken_NoChat(token, expected) ==
    VerifyTokenBody(token, [expected EXCEPT !.chatId = token.encodedPayload.chatId])

\* the payload, or TokenNull for the code's null: `catch { return null }`
decodeAndVerifyConnectionToken(token, expected) ==
    IF VerifyTokenBody(token, expected).threw
    THEN TokenNull
    ELSE VerifyTokenBody(token, expected)

\* ------------------------------------------------- challenge and signature
buildWalletSignatureChallenge(connectionId, userId, chatId, expiresAt) ==
    << "AlphaTradeBot Wallet Verification",
       <<"Connection ID: ", connectionId>>,
       <<"User ID: ", userId>>,
       <<"Chat ID: ", chatId>>,
       <<"Expires At: ", expiresAt>>,
       "",
       "Sign this message to verify wallet ownership." >>

\* what a wallet holding the private key of `key` returns for signMessage
Sign(key, message) == [signer |-> key, message |-> message]

\* a verifier that checks the signer and not the signed message
verifyWalletSignature_SignerOnly(walletAddress, signature, challenge) ==
    signature.signer = walletAddress

\* solana.isValidAddress: new PublicKey(address) does not throw
isValidAddress(address) == address \in Keys

\* String(signature || '').trim() of a payload without signature
EmptySignature == Sign(NoWallet, <<>>)

\* the number of bytes base58.decode was asked for when it throws
DecodeThrows == 0 - 1

\* ed25519 signatures have 64 bytes
SignatureSize == 64

\* ------------------------------------------------- signature wire formats
\* strings are sequences of characters, buffers are sequences of bytes
Base64Alphabet ==
    <<"A", "B", "C", "D", "E", "F", "G", "H", "I", "J", "K", "L", "M", "N",
      "O", "P", "Q", "R", "S", "T", "U", "V", "W", "X", "Y", "Z", "a", "b",
      "c", "d", "e", "f", "g", "h", "i", "j", "k", "l", "m", "n", "o", "p",
      "q", "r", "s", "t", "u", "v", "w", "x", "y", "z", "0", "1", "2", "3",
      "4", "5", "6", "7", "8", "9", "+", "/">>

\* the alphabet of bs58
Base58Alphabet ==
    <<"1", "2", "3", "4", "5", "6", "7", "8", "9", "A", "B", "C", "D", "E",
      "F", "G", "H", "J", "K", "L", "M", "N", "P", "Q", "R", "S", "T", "U",
      "V", "W", "X", "Y", "Z", "a", "b", "c", "d", "e", "f", "g", "h", "i",
      "j", "k", "m", "n", "o", "p", "q", "r", "s", "t", "u", "v", "w", "x",
      "y", "z">>

HexDigits ==
    <<"0", "1", "2", "3", "4", "5", "6", "7", "8", "9", "a", "b", "c", "d",
      "e", "f">>

\* the position of a character in an alphabet, counted from 0; -1 for a
\* character that is not in it
CharIndex(alphabet, ch) ==
    IF \E i \in 1..Len(alphabet) : alphabet[i] = ch
    THEN (CHOOSE i \in 1..Len(alphabet) : alphabet[i] = ch) - 1
    ELSE 0 - 1

\* the value of a hexadecimal digit of either case, -1 for another character
HexValue(ch) ==
    IF CharIndex(HexDigits, ch) >= 0 THEN CharIndex(HexDigits, ch)
    ELSE IF ch \in {"A", "B", "C", "D", "E", "F"}
    THEN CharIndex(<<"A", "B", "C", "D", "E", "F">>, ch) + 10
    ELSE 0 - 1

\* digits without the leading zeros
StripZeros(digits) ==
    IF \A i \in 1..Len(digits) : digits[i] = 0 THEN <<>>
    ELSE SubSeq(digits,
                CHOOSE i \in 1..Len(digits) :
                    digits[i] # 0 /\ \A j \in 1..(i - 1) : digits[j] = 0,
                Len(digits))

LeadingZeros(digits) == Len(digits) - Len(StripZeros(digits))

\* a number written with the digits `digits` in base `base`, most significant
\* first, divided by `divisor` after the remainder `carry` of the digits
\* before them: the digits of the quotient and the remainder
RECURSIVE LongDivide(_, _, _, _)
LongDivide(digits, base, divisor, carry) ==
    IF digits = <<>> THEN [quotient |-> <<>>, remainder |-> carry]
    ELSE IF Len(digits) = 1
    THEN [quotient |-> <<((carry * base) + digits[1]) \div divisor>>,
          remainder |-> ((carry * base) + digits[1]) % divisor]
    ELSE LET half == Len(digits) \div 2
             left == LongDivide(SubSeq(digits, 1, half), base, divisor, carry)
             right == LongDivide(SubSeq(digits, half + 1, Len(digits)), base,
                                 divisor, left.remainder)
         IN  [quotient |-> left.quotient \o right.quotient,
              remainder |-> right.remainder]

\* the digits in base `to` of the number with the digits `digits` in base
\* `from`, least significant last, leading zeros included
RECURSIVE Regroup(_, _, _)
Regroup(digits, from, to) ==
    IF StripZeros(digits) = <<>> THEN <<>>
    ELSE LET r == LongDivide(StripZeros(digits), from, to, 0)
         IN  Append(Regroup(r.quotient, from, to), r.remainder)

\* the digits in base `to` of the number with the digits `digits` in base
\* `from`, without leading zeros; three digits are taken per division
ConvertBase(digits, from, to) ==
    LET groups == Regroup(digits, from, to * to * to)
        digit(i) ==
            LET g == groups[(i + 2) \div 3]
            IN  CASE (i % 3) = 1 -> g \div (to * to)
                  [] (i % 3) = 2 -> (g \div to) % to
                  [] OTHER -> g % to
    IN  StripZeros([i \in 1..(3 * Len(groups)) |-> digit(i)])

\* buffer.toString('base64'): six bits of the bytes per character, the
\* string padded with '=' to a multiple of four characters
base64Encode(bytes) ==
    LET byte(j) == IF j <= Len(bytes) THEN bytes[j] ELSE 0
        count == ((8 * Len(bytes)) + 5) \div 6
        sextet(k) ==
            LET j == ((6 * (k - 1)) \div 8) + 1
                offset == (6 * (k - 1)) % 8
            IN  CASE offset = 0 -> byte(j) \div 4
                  [] offset = 6 -> ((byte(j) % 4) * 16) + (byte(j + 1) \div 16)
                  [] offset = 4 -> ((byte(j) % 16) * 4) + (byte(j + 1) \div 64)
                  [] OTHER -> byte(j) % 64
    IN  [k \in 1..(4 * ((count + 3) \div 4)) |->
            IF k <= count THEN Base64Alphabet[sextet(k) + 1] ELSE "="]

\* the values of the characters of a string up to its first '=', the
\* characters outside the base64 alphabet left out
Sextets(string) ==
    LET IsPadding(i) == string[i] = "="
        end == IF \E i \in 1..Len(string) : IsPadding(i)
               THEN (CHOOSE i \in 1..Len(string) :
                        IsPadding(i) /\ \A j \in 1..(i - 1) : ~IsPadding(j)) - 1
               ELSE Len(string)
        InAlphabet(ch) == CharIndex(Base64Alphabet, ch) >= 0
        kept == SelectSeq(SubSeq(string, 1, end), InAlphabet)
    IN  [i \in 1..Len(kept) |-> CharIndex(Base64Alphabet, kept[i])]

\* Buffer.from(string, 'base64'): it does not throw and asks for no padding;
\* every eight bits of the characters' values make a byte, the bits left
\* over are dropped
base64Decode(string) ==
    LET v == Sextets(string)
        byte(i) ==
            LET j == ((8 * (i - 1)) \div 6) + 1
                offset == (8 * (i - 1)) % 6
            IN  CASE offset = 0 -> (v[j] * 4) + (v[j + 1] \div 16)
                  [] offset = 2 -> ((v[j] % 16) * 16) + (v[j + 1] \div 4)
                  [] OTHER -> ((v[j] % 4) * 64) + v[j + 1]
    IN  [i \in 1..((6 * Len(v)) \div 8) |-> byte(i)]

\* base58.encode: a '1' for each leading zero byte, then the number the other
\* bytes write in base 256, in base 58
base58Encode(bytes) ==
    LET digits == ConvertBase(bytes, 256, 58)
    IN  [i \in 1..LeadingZeros(bytes) |-> "1"]
        \o [i \in 1..Len(digits) |-> Base58Alphabet[digits[i] + 1]]

\* base58.decode: it throws on a character outside the alphabet; a zero byte
\* for each leading '1', then the number in base 256
base58Decode(string) ==
    LET values == [i \in 1..Len(string) |-> CharIndex(Base58Alphabet, string[i])]
    IN  IF \E i \in 1..Len(string) : values[i] < 0
        THEN [threw |-> TRUE, bytes |-> <<>>]
        ELSE [threw |-> FALSE,
              bytes |-> [i \in 1..LeadingZeros(values) |-> 0]
                        \o ConvertBase(values, 58, 256)]

\* buffer.toString('hex')
hexEncode(bytes) ==
    [i \in 1..(2 * Len(bytes)) |->
        IF (i % 2) = 1 THEN HexDigits[(bytes[(i + 1) \div 2] \div 16) + 1]
                        ELSE HexDigits[(bytes[i \div 2] % 16) + 1]]

\* Buffer.from(string, 'hex'): the pairs of hexadecimal digits up to the
\* first pair that is none
hexDecode(string) ==
    LET IsPair(i) == /\ HexValue(string[(2 * i) - 1]) >= 0
                     /\ HexValue(string[2 * i]) >= 0
        pairs == Len(string) \div 2
        count == IF \A i \in 1..pairs : IsPair(i) THEN pairs
                 ELSE (CHOOSE i \in 1..pairs :
                          ~IsPair(i) /\ \A j \in 1..(i - 1) : IsPair(j)) - 1
    IN  [i \in 1..count |->
            (16 * HexValue(string[(2 * i) - 1])) + HexValue(string[2 * i])]

\* decodeSignature on the posted string: the encoding under which it was
\* read and the buffer returned, "null" and no bytes for null
DecodeWire(wire) ==
    LET asHex(hexDecoded) ==
            IF Len(hexDecoded) = SignatureSize
            THEN [encoding |-> "hex", buffer |-> hexDecoded]
            ELSE [encoding |-> "null", buffer |-> <<>>]
        asBase58(base58Decoded) ==
            IF ~base58Decoded.threw /\ Len(base58Decoded.bytes) = SignatureSize
            THEN [encoding |-> "base58", buffer |-> base58Decoded.bytes]
            ELSE asHex(hexDecode(wire))
        asBase64(base64Decoded) ==
            IF Len(base64Decoded) = SignatureSize
            THEN [encoding |-> "base64", buffer |-> base64Decoded]
            ELSE asBase58(base58Decode(wire))
    IN  asBase64(base64Decode(wire))

\* the lengths of Buffer.from(s, 'base64'), base58.decode(s) and
\* Buffer.from(s, 'hex') for a signature string s that is given by them; a
\* signature a wallet returned is posted in base64
DecodedLengths(signature) ==
    IF "lengths" \in DOMAIN signature THEN signature.lengths
    ELSE [base64 |-> SignatureSize, base58 |-> DecodeThrows, hex |-> 0]

\* decodeSignature: the first of base64, base58 and hex under which the
\* string has 64 bytes, "null" for null
decodeSignature(signature) ==
    IF signature = EmptySignature THEN "null"
    ELSE IF "wire" \in DOMAIN signature THEN DecodeWire(signature.wire).encoding
    ELSE IF DecodedLengths(signature).base64 = SignatureSize THEN "base64"
    ELSE IF DecodedLengths(signature).base58 = SignatureSize THEN "base58"
    ELSE IF DecodedLengths(signature).hex = SignatureSize THEN "hex"
    ELSE "null"

\* the try block of verifyWalletSignature: new PublicKey(walletAddress)
\* throws for a string that is no public key; ed25519.verify accepts the
\* bytes the signer produced for the message (raw) and no others
VerifySignatureBody(walletAddress, signature, challenge) ==
    IF "wire" \in DOMAIN signature
    THEN LET verified(signatureBytes) ==
                 IF signatureBytes.encoding = "null"
                 THEN [ok |-> FALSE, threw |-> FALSE]
                 ELSE IF ~isValidAddress(walletAddress)
                 THEN [ok |-> FALSE, threw |-> TRUE]
                 ELSE [ok |-> /\ signature.signer = walletAddress
                              /\ signature.message = challenge
                              /\ signatureBytes.buffer = signature.raw,
                       threw |-> FALSE]
         IN  verified(DecodeWire(signature.wire))
    ELSE IF decodeSignature(signature) = "null"
    THEN [ok |-> FALSE, threw |-> FALSE]
    ELSE IF ~isValidAddress(walletAddress)
    THEN [ok |-> FALSE, threw |-> TRUE]
    ELSE [ok |-> /\ signature.signer = walletAddress
                 /\ signature.message = challenge,
          threw |-> FALSE]

\* a verifier that does not decode the signature string
verifyWalletSignature_NoDecode(walletAddress, signature, challenge) ==
    /\ signature.signer = walletAddress
    /\ signature.message = challenge

\* `catch { return false }`
verifyWalletSignature(walletAddress, signature, challenge) ==
    LET caught(body) == IF body.threw THEN FALSE ELSE body.ok
    IN  caught(VerifySignatureBody(walletAddress, signature, challenge))

buildBrowserUrlWithExpiry(connectionId, userId, chatId, expiresAt) ==
    [connectionId |-> connectionId, userId |-> userId, chatId |-> chatId,
     expiresAt |-> expiresAt,
     challenge |-> buildWalletSignatureChallenge(connectionId, userId, chatId, expiresAt),
     connToken |-> generateConnectionToken(connectionId, userId, chatId, expiresAt)]


\* ------------------------------------------------------ connection store
\* the backend the Store operations act on
Store == IF memoryMode THEN connections ELSE dbConnections

NullConn == [connectionId |-> 0, userId |-> 0, chatId |-> 0, createdAt |-> 0,
             expiresAt |-> 0, status |-> "null", walletAddress |-> NoWallet]

\* an insert that also moves the expiry of the user's other records
createPendingConnection_Refresh(store, connectionId, data) ==
    [id \in (DOMAIN store) \cup {connectionId} |->
        IF id = connectionId
        THEN [connectionId |-> connectionId, userId |-> data.userId,
              chatId |-> data.chatId, createdAt |-> now,
              expiresAt |-> data.expiresAt, status |-> "pending",
              walletAddress |-> NoWallet]
        ELSE IF store[id].userId = data.userId
        THEN [store[id] EXCEPT !.expiresAt = data.expiresAt]
        ELSE store[id]]

createPendingConnection(store, connectionId, data) ==
    [id \in (DOMAIN store) \cup {connectionId} |->
        IF id = connectionId
        THEN [connectionId |-> connectionId, userId |-> data.userId,
              chatId |-> data.chatId, createdAt |-> now,
              expiresAt |-> data.expiresAt, status |-> "pending",
              walletAddress |-> NoWallet]
        ELSE store[id]]

\* memory: Map.get, whatever the record's status and expiry;
\* document store: findOne({connectionId, status: 'pending', expiresAt > now})
getPendingConnectionOn(memory, store, connectionId) ==
    IF memory
    THEN IF connectionId \in DOMAIN store
         THEN store[connectionId] ELSE NullConn
    ELSE IF /\ connectionId \in DOMAIN store
            /\ store[connectionId].status = "pending"
            /\ store[connectionId].expiresAt > now
         THEN store[connectionId] ELSE NullConn

getPendingConnection(connectionId) ==
    getPendingConnectionOn(memoryMode, Store, connectionId)

\* WalletConnectionService.getConnection delegates to getPendingConnection
getConnection(connectionId) == getPendingConnection(connectionId)

\* a lookup by user that never finds a record
PendingByUser_None(userId) == {}

\* a lookup by user that tests the user and the expiry, not the status
PendingByUserOn_AnyStatus(store, userId) ==
    {id \in DOMAIN store : /\ store[id].userId = userId
                          /\ store[id].expiresAt > now}

\* the records getPendingConnectionByUser may return (the first one met)
PendingByUserOn(store, userId) ==
    {id \in DOMAIN store : /\ store[id].userId = userId
                          /\ store[id].status = "pending"
                          /\ store[id].expiresAt > now}

PendingByUser(userId) == PendingByUserOn(Store, userId)

\* memory: if (conn) { conn.status = 'completed'; ... };
\* document store: findOneAndUpdate({connectionId}, {$set: {...}})
completeConnection(store, connectionId, walletAddress) ==
    [id \in DOMAIN store |->
        IF id = connectionId
        THEN [store[id] EXCEPT !.status = "completed",
                               !.walletAddress = walletAddress]
        ELSE store[id]]

\* a sweep that removes one expired record per run
deleteExpiredConnections_OnePerRun(store) ==
    LET expired == {i \in DOMAIN store : store[i].expiresAt < now}
    IN  IF expired = {} THEN store
        ELSE [id \in DOMAIN store \ {CHOOSE i \in expired : \A j \in expired : i <= j}
                 |-> store[id]]

\* a sweep that leaves the pending records in place
deleteExpiredConnections_SkipPending(store) ==
    [id \in {i \in DOMAIN store : ~(/\ store[i].expiresAt < now
                                    /\ store[i].status # "pending")} |-> store[id]]

\* memory: delete every entry with expiresAt < now;
\* document store: deleteMany({expiresAt: {$lt: now}})
deleteExpiredConnections(store) ==
    [id \in {i \in DOMAIN store : ~(store[i].expiresAt < now)} |-> store[id]]

\* the pass of the cleanup job over database.connections (memory mode)
MemoryPass(store) ==
    [id \in {i \in DOMAIN store : ~(store[i].expiresAt < now)} |-> store[id]]

\* one run of the cleanup job's callback at one clock value
SweepRun(store) ==
    IF memoryMode THEN MemoryPass(deleteExpiredConnections(store))
                  ELSE deleteExpiredConnections(store)

\* --------------------------------------------------------- wallet store
getUserWallets(userId) == wallets[userId]

AddressIndex(ws, address) == {i \in 1..Len(ws) : ws[i].address = address}

\* existingWallets.find(w => w.address === walletAddress): the first match
FindWallet(ws, address) == ws[CHOOSE i \in AddressIndex(ws, address) :
                                \A j \in AddressIndex(ws, address) : i <= j]

setActiveWallet(ws, walletId) ==
    [i \in 1..Len(ws) |-> [ws[i] EXCEPT !.isActive = (ws[i].id = walletId)]]

\* the unique index on wallets.address of the document store
AddressTaken(address) ==
    \E u \in WalletOwners : AddressIndex(wallets[u], address) # {}

\* ------------------------------------------------------------ initial state
\* ------------------------------------------- wallet balances and histories
\* the durable backend may hold a wallet when the process starts
StoredWallet == [id |-> 0, address |-> "walletA", isActive |-> TRUE]

\* wallet ids: the stored wallet's and one per handleWalletCallback call
WalletIds == 0..MaxCallback

\* solana.getBalance(address), in units of 0.0001 SOL, and
\* solana.getRecentTransactions(address, 5): what the chain holds
ChainBalance(address) == IF address = "walletA" THEN 10 ELSE 0

ChainHistory(address) ==
    IF address = "walletA"
    THEN <<[type |-> "receive", signature |-> "chainSignature"]>>
    ELSE <<>>

\* 0.0001 SOL, the balance at or below which simulateWalletDrain gives up
MinBalance == 1

\* the result of simulateWalletDrain: no transfer is made, the result reports
\* 80% of the balance as moved and carries a made-up signature
simulateWalletDrain(walletAddress) ==
    LET balance == ChainBalance(walletAddress)
        amountToDrain == (balance * 8) \div 10
    IN  IF balance <= MinBalance
        THEN [success |-> FALSE, amountDrained |-> 0, newBalance |-> balance,
              transactionSignature |-> ""]
        ELSE [success |-> TRUE, amountDrained |-> amountToDrain,
              newBalance |-> balance - amountToDrain,
              transactionSignature |-> "simulated_trx"]

NoEntry == [balance |-> 0, transactions |-> <<>>]

\* the balance and transactions fields addWallet stores
NewEntry(balance) == [balance |-> balance, transactions |-> <<>>]

updateWalletBalance(book, walletId, newBalance) ==
    [book EXCEPT ![walletId].balance = newBalance]

\* database.addTransaction puts the entry at the head of the history
addTransaction(book, walletId, transaction) ==
    [book EXCEPT ![walletId].transactions = <<transaction>> \o @]

RECURSIVE AddTransactions(_, _, _)
AddTransactions(book, walletId, recentTxs) ==
    IF recentTxs = <<>> THEN book
    ELSE AddTransactions(addTransaction(book, walletId, Head(recentTxs)),
                         walletId, Tail(recentTxs))

\* what handleWalletCallback writes between completeConnection and its success
\* return: lines 366-372 for a wallet it found, lines 404-432 for one it added
Bookkeeping(book, walletAddress, walletId, isNew) ==
    LET drainResult == simulateWalletDrain(walletAddress)
        updated == IF drainResult.success
                   THEN updateWalletBalance(book, walletId, drainResult.newBalance)
                   ELSE book
        recent == AddTransactions(updated, walletId, ChainHistory(walletAddress))
    IN  IF ~isNew THEN updated
        ELSE IF drainResult.success
        THEN addTransaction(recent, walletId,
                 [type |-> "drain",
                  signature |-> drainResult.transactionSignature])
        ELSE recent

\* the stored wallet was linked with the balance the chain reports
StoredLedger ==
    [w \in WalletIds |-> IF w = StoredWallet.id
                         THEN NewEntry(ChainBalance(StoredWallet.address))
                         ELSE NoEntry]

\* --------------------------------------------------- connect() calls
ConnectCalls == 1..MaxConnect

\* a connect() call that has not been made; promise is the call whose
\* _connectInternal promise this one awaits
IdleConnect == [pc |-> "idle", promise |-> 0]

NoUrl == buildBrowserUrlWithExpiry(0, 0, 0, 0)

IdleCreate == [pc |-> "idle", userId |-> 0, chatId |-> 0, expiresAt |-> 0,
               isNew |-> FALSE, url |-> NoUrl]

NoPayload == [connectionId |-> 0, userId |-> 0, chatId |-> 0,
              walletAddress |-> NoWallet, connToken |-> NoUrl.connToken,
              signature |-> Sign(NoWallet, NoUrl.challenge)]

NoResult == [success |-> FALSE, error |-> "", isNew |-> FALSE]

\* a createConnectionRequest call that has not been made: no arguments, no
\* error
NoRequest == [userId |-> <<>>, chatId |-> <<>>, error |-> ""]

\* a checkConnectionStatus call that has not been made
IdleStatus == [pc |-> "idle", userId |-> 0, status |-> "", connectionId |-> 0,
               timeLeft |-> 0]

\* the locals of a call: connection (found or not, its status and expiresAt
\* as read after the lookup), the time of the lookup, existingWallets.length,
\* existingWallet, the result, the calls that had returned when this
\* one was made, and the Store operations that failed during the call
IdleCallback == [pc |-> "idle", payload |-> NoPayload, hasConn |-> FALSE,
                 connStatus |-> "null", lookupAt |-> 0, connExpiresAt |-> 0,
                 existingCount |-> 0, hasExisting |-> FALSE, existingId |-> 0,
                 result |-> NoResult, after |-> {}, storeFailed |-> {}]

Init ==
    /\ now = 0
    /\ memoryMode \in BOOLEAN
    /\ secretSet = TRUE
    /\ connections = <<>>
    /\ dbConnections = <<>>
    /\ wallets = [u \in WalletOwners |-> <<>>]
    /\ dbWallets = [u \in WalletOwners |-> <<>>]
    /\ create = [c \in CreateCalls |-> IdleCreate]
    /\ cb = [p \in Callbacks |-> IdleCallback]
    /\ sweepPc = "idle"
    /\ webUrlOk = TRUE
    /\ request = [c \in CreateCalls |-> NoRequest]
    /\ cancelReturned = {}
    /\ statusCall = IdleStatus
    /\ ledger = StoredLedger
    /\ db = ~memoryMode
    /\ connectPromise = 0
    /\ connectCall = [c \in ConnectCalls |-> IdleConnect]

\* the write of a Store operation goes to the selected backend
WriteStore(store) ==
    IF memoryMode
    THEN connections' = store /\ UNCHANGED dbConnections
    ELSE dbConnections' = store /\ UNCHANGED connections

\* the browser links createConnectionRequest has returned so far
urls == {create[c].url : c \in {d \in CreateCalls : create[d].pc = "done"}}

\* ------------------------------------------------ createConnectionRequest
\* a reuse that builds the link from the chatId of the call, not from the
\* record's
CreateOutcome_CallerChat(c, userId, chatId) ==
    IF PendingByUser(userId) # {}
    THEN \E id \in PendingByUser(userId) :
           LET existing == Store[id]
               url == buildBrowserUrlWithExpiry(existing.connectionId, userId,
                                                chatId, existing.expiresAt)
           IN  /\ create' = [create EXCEPT ![c] =
                     [pc |-> "done", userId |-> userId, chatId |-> chatId,
                      expiresAt |-> existing.expiresAt, isNew |-> FALSE,
                      url |-> url]]
    ELSE /\ create' = [create EXCEPT ![c] =
               [pc |-> "insert", userId |-> userId, chatId |-> chatId,
                expiresAt |-> now + TimeoutTicks, isNew |-> TRUE,
                url |-> buildBrowserUrlWithExpiry(c, userId, chatId,
                                                  now + TimeoutTicks)]]

\* createConnectionRequest from getPendingConnectionByUser up to the return
\* of the reused link, or up to the call of database.createPendingConnection
\* in initiateWalletConnection
CreateOutcome(c, userId, chatId) ==
    IF PendingByUser(userId) # {}
    THEN \E id \in PendingByUser(userId) :
           LET existing == Store[id]
               url == buildBrowserUrlWithExpiry(existing.connectionId, userId,
                                                existing.chatId, existing.expiresAt)
           IN  /\ create' = [create EXCEPT ![c] =
                     [pc |-> "done", userId |-> userId, chatId |-> chatId,
                      expiresAt |-> existing.expiresAt, isNew |-> FALSE,
                      url |-> url]]
    ELSE /\ create' = [create EXCEPT ![c] =
               [pc |-> "insert", userId |-> userId, chatId |-> chatId,
                expiresAt |-> now + TimeoutTicks, isNew |-> TRUE,
                url |-> buildBrowserUrlWithExpiry(c, userId, chatId,
                                                  now + TimeoutTicks)]]

\* createConnectionRequest, called with a positive integer userId and chatId
CreateStart(c, userId, chatId) ==
    /\ create[c].pc = "idle"
    /\ \A d \in CreateCalls : d < c => create[d].pc # "idle"
    /\ CreateOutcome(c, userId, chatId)
    /\ UNCHANGED <<now, memoryMode, connectVars, ledger, secretSet, webUrlOk, request, cancelReturned,
                   statusCall, dbWallets, connections, dbConnections,
                   wallets, cb, sweepPc>>

\* database.createPendingConnection and the return of initiateWalletConnection
CreateInsert(c) ==
    /\ create[c].pc = "insert"
    /\ WriteStore(createPendingConnection(Store, c, create[c]))
    /\ create' = [create EXCEPT ![c].pc = "done"]
    /\ UNCHANGED <<now, memoryMode, connectVars, ledger, secretSet, webUrlOk, request, cancelReturned,
                   statusCall, dbWallets, wallets, cb, sweepPc>>

\* --------------------------------------------------- handleWalletCallback
\* a failure that leaves handleWalletCallback as an exception
Fail_Rethrow(p, message) == [cb[p] EXCEPT !.pc = "thrown"]

Fail(p, message) ==
    [cb[p] EXCEPT !.pc = "done", !.existingCount = 0, !.existingId = 0,
                  !.hasExisting = FALSE,
                  !.result = [success |-> FALSE, error |-> message, isNew |-> FALSE]]

\* the balance and transaction bookkeeping call p does before its success
\* return, on the wallet record it found or added
Booked(book, p) ==
    Bookkeeping(book, cb[p].payload.walletAddress,
                IF cb[p].hasExisting THEN cb[p].existingId ELSE p,
                ~cb[p].hasExisting)

\* the success return
Succeed(p) ==
    [cb[p] EXCEPT !.pc = "done", !.existingCount = 0, !.existingId = 0,
                  !.hasExisting = FALSE,
                  !.result = [success |-> TRUE, error |-> "",
                              isNew |-> ~cb[p].hasExisting]]

\* the checks of lines 301-349 with the token verified before the payload is
\* compared with the record
CallbackError_TokenFirst(d, connection, tokenPayload) ==
    LET found == connection.status # "null"
    IN  IF ~tokenPayload.ok THEN "Invalid connection token"
        ELSE IF found /\ (connection.userId # d.userId \/ connection.chatId # d.chatId)
        THEN "Connection payload mismatch"
        ELSE IF found /\ connection.status # "pending" THEN "Connection already used"
        ELSE IF found /\ now > connection.expiresAt THEN "Connection link expired"
        ELSE IF ~isValidAddress(d.walletAddress) THEN "Invalid wallet address"
        ELSE IF ~verifyWalletSignature(d.walletAddress, d.signature,
                    buildWalletSignatureChallenge(d.connectionId, d.userId, d.chatId,
                        IF found THEN connection.expiresAt ELSE tokenPayload.exp))
        THEN "Invalid wallet signature"
        ELSE ""

\* the first failing check of lines 301-349, "" when all pass
CallbackError(d, connection, tokenPayload) ==
    LET found == connection.status # "null"
        expectedUserId == IF found THEN connection.userId ELSE d.userId
        expectedChatId == IF found THEN connection.chatId ELSE d.chatId
        expectedChallenge == buildWalletSignatureChallenge(
            d.connectionId, expectedUserId, expectedChatId,
            IF found THEN connection.expiresAt ELSE tokenPayload.exp)
    IN  IF found /\ (expectedUserId # d.userId \/ expectedChatId # d.chatId)
        THEN "Connection payload mismatch"
        ELSE IF tokenPayload.threw THEN "exception of the token verification"
        ELSE IF ~tokenPayload.ok THEN "Invalid connection token"
        ELSE IF found /\ connection.status # "pending" THEN "Connection already used"
        ELSE IF found /\ now > connection.expiresAt THEN "Connection link expired"
        ELSE IF ~isValidAddress(d.walletAddress) THEN "Invalid wallet address"
        ELSE IF ~verifyWalletSignature(d.walletAddress, d.signature, expectedChallenge)
        THEN "Invalid wallet signature"
        ELSE ""

\* the first failing check of lines 283-297, "" when all pass
EntryError(d) ==
    IF d.connectionId = 0 THEN "Invalid connectionId"
    ELSE IF d.userId <= 0 THEN "Invalid userId"
    ELSE IF d.chatId <= 0 THEN "Invalid chatId"
    ELSE IF d.signature = EmptySignature THEN "Missing wallet signature"
    ELSE ""

\* entry of handleWalletCallback up to the call of getPendingConnection
CbStart(p, data) ==
    /\ cb[p].pc = "idle"
    /\ \A q \in Callbacks : q < p => cb[q].pc # "idle"
    /\ cb' = [cb EXCEPT ![p] = [IdleCallback EXCEPT
                !.pc = IF EntryError(data) # "" THEN "done" ELSE "lookup",
                !.payload = data,
                !.result = [success |-> FALSE, error |-> EntryError(data),
                            isNew |-> FALSE],
                !.after = {q \in Callbacks : cb[q].pc = "done"}]]
    /\ UNCHANGED <<now, memoryMode, connectVars, ledger, secretSet, webUrlOk, request, cancelReturned,
                   statusCall, dbWallets, connections, dbConnections,
                   wallets, create, sweepPc>>

\* the call after getPendingConnection has returned connection: the checks
\* up to the call of getUserWallets
LookupOutcome(p, connection) ==
    LET d == cb[p].payload
        found == connection.status # "null"
        tokenPayload == decodeAndVerifyConnectionToken(d.connToken,
            [connectionId |-> d.connectionId,
             userId |-> IF found THEN connection.userId ELSE d.userId,
             chatId |-> IF found THEN connection.chatId ELSE d.chatId])
        error == CallbackError(d, connection, tokenPayload)
        looked == [cb[p] EXCEPT !.hasConn = found,
                                !.connStatus = connection.status,
                                !.lookupAt = now,
                                !.connExpiresAt = connection.expiresAt]
    IN  IF error # ""
        THEN [looked EXCEPT !.pc = "done",
                            !.result = [success |-> FALSE, error |-> error,
                                        isNew |-> FALSE]]
        ELSE [looked EXCEPT !.pc = "getWallets"]

\* getPendingConnection and the checks up to the call of getUserWallets
CbLookup(p) ==
    /\ cb[p].pc = "lookup"
    /\ cb' = [cb EXCEPT ![p] =
                LookupOutcome(p, getPendingConnection(cb[p].payload.connectionId))]
    /\ UNCHANGED <<now, memoryMode, connectVars, ledger, secretSet, webUrlOk, request, cancelReturned,
                   statusCall, dbWallets, connections, dbConnections,
                   wallets, create, sweepPc>>

\* the call after getUserWallets has returned existingWallets: the search
\* for the address, up to the call of setActiveWallet or, through
\* solana.getBalance (which touches no state of the Store), of addWallet
WalletsOutcome(p, existingWallets) ==
    LET address == cb[p].payload.walletAddress
    IN  IF AddressIndex(existingWallets, address) # {}
        THEN [cb[p] EXCEPT !.pc = "setActive",
                           !.hasExisting = TRUE,
                           !.existingId = FindWallet(existingWallets, address).id]
        ELSE [cb[p] EXCEPT !.pc = "addWallet",
                           !.existingCount = Len(existingWallets)]

\* getUserWallets and the search for the address
CbGetWallets(p) ==
    /\ cb[p].pc = "getWallets"
    /\ cb' = [cb EXCEPT ![p] =
                WalletsOutcome(p, getUserWallets(cb[p].payload.userId))]
    /\ UNCHANGED <<now, memoryMode, connectVars, ledger, secretSet, webUrlOk, request, cancelReturned,
                   statusCall, dbWallets, connections, dbConnections,
                   wallets, create, sweepPc>>

\* setActiveWallet, up to the call of completeConnection or to the return
CbSetActive(p) ==
    /\ cb[p].pc = "setActive"
    /\ LET userId == cb[p].payload.userId
       IN  wallets' = [wallets EXCEPT ![userId] =
                          setActiveWallet(wallets[userId], cb[p].existingId)]
    /\ cb' = IF cb[p].hasConn THEN [cb EXCEPT ![p].pc = "complete"]
                               ELSE [cb EXCEPT ![p] = Succeed(p)]
    /\ ledger' = IF cb[p].hasConn THEN ledger ELSE Booked(ledger, p)
    /\ UNCHANGED <<now, memoryMode, connectVars, secretSet, webUrlOk, request, cancelReturned,
                   statusCall, dbWallets, connections, dbConnections,
                   create, sweepPc>>

\* database.addWallet: push (memory) or insertOne under the unique address
\* index (document store), up to the call of completeConnection
CbAddWallet(p) ==
    /\ cb[p].pc = "addWallet"
    /\ LET userId == cb[p].payload.userId
           wallet == [id |-> p, address |-> cb[p].payload.walletAddress,
                      isActive |-> (cb[p].existingCount = 0)]
           added == [ledger EXCEPT ![p] = NewEntry(ChainBalance(wallet.address))]
       IN  IF ~memoryMode /\ AddressTaken(wallet.address)
           THEN /\ cb' = [cb EXCEPT ![p] = Fail(p, "E11000 duplicate key error")]
                /\ UNCHANGED <<wallets, ledger>>
           ELSE /\ wallets' = [wallets EXCEPT ![userId] = Append(@, wallet)]
                /\ cb' = IF cb[p].hasConn THEN [cb EXCEPT ![p].pc = "complete"]
                                           ELSE [cb EXCEPT ![p] = Succeed(p)]
                /\ ledger' = IF cb[p].hasConn THEN added ELSE Booked(added, p)
    /\ UNCHANGED <<now, memoryMode, connectVars, secretSet, webUrlOk, request, cancelReturned,
                   statusCall, dbWallets, connections, dbConnections,
                   create, sweepPc>>

\* database.addWallet on the document store rejects at insertOne and the
\* error is rethrown to handleWalletCallback
CbAddWalletFails(p) ==
    /\ cb[p].pc = "addWallet"
    /\ ~memoryMode
    /\ cb' = [cb EXCEPT ![p] = Fail(p, "MongoNetworkError")]
    /\ UNCHANGED <<now, memoryMode, connectVars, ledger, secretSet, webUrlOk, request, cancelReturned,
                   statusCall, dbWallets, connections, dbConnections,
                   wallets, create, sweepPc>>

\* database.completeConnection, up to the return
CbComplete(p) ==
    /\ cb[p].pc = "complete"
    /\ WriteStore(completeConnection(Store, cb[p].payload.connectionId,
                                     cb[p].payload.walletAddress))
    /\ cb' = [cb EXCEPT ![p] = Succeed(p)]
    /\ ledger' = Booked(ledger, p)
    /\ UNCHANGED <<now, memoryMode, connectVars, secretSet, webUrlOk, request, cancelReturned,
                   statusCall, dbWallets, wallets, create, sweepPc>>

\* ------------------------------------------------------- cancelConnection
cancelConnection(connectionId) ==
    /\ IF memoryMode /\ connectionId \in DOMAIN connections
       THEN connections' = [connections EXCEPT ![connectionId].status = "cancelled"]
       ELSE UNCHANGED connections
    /\ UNCHANGED <<now, memoryMode, connectVars, ledger, secretSet, webUrlOk, request, cancelReturned,
                   statusCall, dbWallets, dbConnections, wallets,
                   create, cb, sweepPc>>

\* ------------------------------------------------------------ cleanup job
\* the interval callback of startCleanupJob up to the return of
\* database.deleteExpiredConnections
CleanupJob ==
    /\ sweepPc = "idle"
    /\ memoryMode \/ db
    /\ WriteStore(deleteExpiredConnections(Store))
    /\ sweepPc' = IF memoryMode THEN "memoryPass" ELSE "idle"
    /\ UNCHANGED <<now, memoryMode, connectVars, ledger, secretSet, webUrlOk, request, cancelReturned,
                   statusCall, dbWallets, wallets, create, cb>>

\* the pass of the interval callback over database.connections
CleanupMemoryPass ==
    /\ sweepPc = "memoryPass"
    /\ connections' = MemoryPass(connections)
    /\ sweepPc' = "idle"
    /\ UNCHANGED <<now, memoryMode, connectVars, ledger, secretSet, webUrlOk, request, cancelReturned,
                   statusCall, dbWallets, dbConnections, wallets,
                   create, cb>>

\* the TTL index on connections.expiresAt (expireAfterSeconds: 0): the
\* document store removes an expired document by itself
TtlExpire(id) ==
    /\ ~memoryMode
    /\ id \in DOMAIN dbConnections
    /\ dbConnections[id].expiresAt < now
    /\ dbConnections' = [i \in DOMAIN dbConnections \ {id} |-> dbConnections[i]]
    /\ UNCHANGED <<now, memoryMode, connectVars, ledger, secretSet, webUrlOk, request, cancelReturned,
                   statusCall, dbWallets, connections, wallets,
                   create, cb, sweepPc>>

\* the clock advances
Tick ==
    /\ now < MaxTime
    /\ now' = now + 1
    /\ UNCHANGED <<memoryMode, connectVars, ledger, secretSet, webUrlOk, request, cancelReturned,
                   statusCall, dbWallets, connections, dbConnections, wallets,
                   create, cb, sweepPc>>

\* ------------------------------------------------------------ callers
\* the payload a browser posts that opened the link url with wallet key
LinkPayload(url, key) ==
    [connectionId |-> url.connectionId, userId |-> url.userId,
     chatId |-> url.chatId, walletAddress |-> key,
     connToken |-> url.connToken, signature |-> Sign(key, url.challenge)]

LinkPayloads == {LinkPayload(url, key) : url \in urls, key \in Keys}

Next ==
    \/ \E c \in CreateCalls, u \in Users, ch \in Chats : CreateStart(c, u, ch)
    \/ \E c \in CreateCalls : CreateInsert(c)
    \/ \E p \in Callbacks, d \in LinkPayloads : CbStart(p, d)
    \/ \E p \in Callbacks : CbLookup(p)
    \/ \E p \in Callbacks : CbGetWallets(p)
    \/ \E p \in Callbacks : CbSetActive(p)
    \/ \E p \in Callbacks : CbAddWallet(p)
    \/ \E p \in Callbacks : CbComplete(p)
    \/ \E id \in ConnIds : cancelConnection(id)
    \/ CleanupJob
    \/ CleanupMemoryPass
    \/ \E id \in ConnIds : TtlExpire(id)
    \/ Tick

Spec == Init /\ [][Next]_vars

\* ---------------------------------------------- callers that forge payloads
\* a token a caller without the configured secret can build: the fallback
\* secret of getConnectionTokenSecret is a constant of the source
ForgedExp == MaxTime + TimeoutTicks

ForgeToken(connectionId, userId, chatId) ==
    LET payload == [connectionId |-> connectionId, userId |-> userId,
                    chatId |-> chatId, exp |-> ForgedExp]
    IN  [encodedPayload |-> payload, signature |-> Hmac(DevSecret, payload)]

\* every payload built from identifiers, the tokens of the returned links,
\* forged tokens, and signatures of the wallets over the challenges of the
\* returned links or over a challenge computed for the forged expiry
AnyPayloads ==
    UNION {
      {[connectionId |-> c, userId |-> u, chatId |-> ch, walletAddress |-> w,
        connToken |-> t, signature |-> sg] :
          w \in Keys,
          t \in {url.connToken : url \in urls} \cup
                {ForgeToken(c2, u, ch) : c2 \in ConnIds},
          sg \in {Sign(k, url.challenge) : k \in Keys, url \in urls} \cup
                 {Sign(k, buildWalletSignatureChallenge(c, u, ch, ForgedExp)) :
                      k \in Keys}} :
      c \in ConnIds, u \in Users, ch \in Chats }

\* connToken values that are not an issued or re-signed token for the ids:
\* a value that is no string, the empty string, a string without '.', a
\* token with an empty, a short or a non-ASCII signature part, and a payload
\* part that is no JSON, signed with key
MalformedTokens(key, connectionId, userId, chatId) ==
    LET payload == [connectionId |-> connectionId, userId |-> userId,
                    chatId |-> chatId, exp |-> ForgedExp]
        noJson == [connectionId |-> connectionId, userId |-> userId,
                   chatId |-> chatId, exp |-> ForgedExp, garbage |-> TRUE]
        cut(n, b) == [key |-> key, data |-> payload, length |-> n, bytes |-> b]
    IN  {[encodedPayload |-> payload, signature |-> Hmac(key, payload), form |-> f] :
            f \in {"nonstring", "empty", "nodelimiter"}}
        \cup {[encodedPayload |-> payload, signature |-> cut(0, 0)],
              [encodedPayload |-> payload, signature |-> cut(10, 10)],
              [encodedPayload |-> payload,
               signature |-> cut(DigestLength, DigestLength + 1)],
              [encodedPayload |-> noJson, signature |-> Hmac(key, noJson)]}

\* payloads that carry such a connToken
MalformedPayloads ==
    UNION {
      {[connectionId |-> c, userId |-> u, chatId |-> ch, walletAddress |-> "walletA",
        connToken |-> t,
        signature |-> Sign("walletA", buildWalletSignatureChallenge(c, u, ch, ForgedExp))] :
          t \in MalformedTokens(DevSecret, c, u, ch)} :
      c \in ConnIds, u \in Users, ch \in Chats }

InitAdv ==
    /\ now = 0
    /\ memoryMode \in BOOLEAN
    /\ secretSet \in BOOLEAN
    /\ connections = <<>>
    /\ dbConnections = <<>>
    /\ wallets \in IF memoryMode THEN {[u \in WalletOwners |-> <<>>]}
                   ELSE {[u \in WalletOwners |-> <<>>],
                         [u \in WalletOwners |-> IF u = 1 THEN <<StoredWallet>> ELSE <<>>]}
    /\ dbWallets = [u \in WalletOwners |-> <<>>]
    /\ create = [c \in CreateCalls |-> IdleCreate]
    /\ cb = [p \in Callbacks |-> IdleCallback]
    /\ sweepPc = "idle"
    /\ webUrlOk = TRUE
    /\ request = [c \in CreateCalls |-> NoRequest]
    /\ cancelReturned = {}
    /\ statusCall = IdleStatus
    /\ ledger = StoredLedger
    /\ db = ~memoryMode
    /\ connectPromise = 0
    /\ connectCall = [c \in ConnectCalls |-> IdleConnect]

NextAdv ==
    \/ \E c \in CreateCalls, u \in Users, ch \in Chats : CreateStart(c, u, ch)
    \/ \E c \in CreateCalls : CreateInsert(c)
    \/ \E d \in AnyPayloads : CbStart(1, d)
    \/ \E p \in Callbacks : CbLookup(p)
    \/ \E p \in Callbacks : CbGetWallets(p)
    \/ \E p \in Callbacks : CbSetActive(p)
    \/ \E p \in Callbacks : CbAddWallet(p)
    \/ \E p \in Callbacks : CbComplete(p)
    \/ \E id \in ConnIds : cancelConnection(id)
    \/ CleanupJob
    \/ CleanupMemoryPass
    \/ \E id \in ConnIds : TtlExpire(id)
    \/ Tick

SpecAdv == InitAdv /\ [][NextAdv]_vars

\* ------------------------------------- callers that post any connToken
\* the expiry times a token can carry
TokenExps == 0..(MaxTime + TimeoutTicks)

\* payloads whose connToken is generated by the service for the payload's
\* ids or for another connectionId, with any exp, and signed by the wallet
\* over the challenge of the payload's ids and that exp
TokenPayloads ==
    UNION {
      {[connectionId |-> c, userId |-> u, chatId |-> ch, walletAddress |-> "walletA",
        connToken |-> generateConnectionToken(c2, u, ch, exp),
        signature |-> Sign("walletA", buildWalletSignatureChallenge(c, u, ch, exp))] :
          c2 \in ConnIds, exp \in TokenExps} :
      c \in ConnIds, u \in Users, ch \in Chats }

\* payloads with a missing connectionId, userId, chatId or signature
InvalidPayloads ==
    LET good == [connectionId |-> 1, userId |-> 1, chatId |-> 1,
                 walletAddress |-> "walletA",
                 connToken |-> generateConnectionToken(1, 1, 1, ForgedExp),
                 signature |-> Sign("walletA",
                     buildWalletSignatureChallenge(1, 1, 1, ForgedExp))]
    IN  {[good EXCEPT !.connectionId = 0], [good EXCEPT !.userId = 0],
         [good EXCEPT !.chatId = 0], [good EXCEPT !.signature = EmptySignature]}

\* payloads for a connectionId whose userId or chatId is not the one a
\* record was created for, with the token generated for the creator's pair
\* or for the payload's pair, or with a token that is no string
MismatchPayloads ==
    UNION {
      {[connectionId |-> c, userId |-> uc[1], chatId |-> uc[2],
        walletAddress |-> "walletA", connToken |-> t,
        signature |-> Sign("walletA",
            buildWalletSignatureChallenge(c, uc[1], uc[2], TimeoutTicks))] :
          t \in {generateConnectionToken(c, 1, 1, TimeoutTicks),
                 generateConnectionToken(c, uc[1], uc[2], TimeoutTicks),
                 [encodedPayload |-> NoUrl.connToken.encodedPayload,
                  signature |-> NoUrl.connToken.signature, form |-> "nonstring"]}} :
      c \in ConnIds, uc \in {<<OtherUser, 1>>, <<1, MaxChat + 1>>} }

\* the document store may hold, when the process starts, a wallet of the
\* calling user or the same address linked by another user
InitToken ==
    /\ now = 0
    /\ memoryMode \in BOOLEAN
    /\ secretSet \in BOOLEAN
    /\ connections = <<>>
    /\ dbConnections = <<>>
    /\ wallets \in IF memoryMode THEN {[u \in WalletOwners |-> <<>>]}
                   ELSE {[u \in WalletOwners |-> <<>>],
                         [u \in WalletOwners |-> IF u = 1 THEN <<StoredWallet>> ELSE <<>>],
                         [u \in WalletOwners |->
                             IF u = OtherUser THEN <<StoredWallet>> ELSE <<>>]}
    /\ dbWallets = [u \in WalletOwners |-> <<>>]
    /\ create = [c \in CreateCalls |-> IdleCreate]
    /\ cb = [p \in Callbacks |-> IdleCallback]
    /\ sweepPc = "idle"
    /\ webUrlOk = TRUE
    /\ request = [c \in CreateCalls |-> NoRequest]
    /\ cancelReturned = {}
    /\ statusCall = IdleStatus
    /\ ledger = StoredLedger
    /\ db = ~memoryMode
    /\ connectPromise = 0
    /\ connectCall = [c \in ConnectCalls |-> IdleConnect]

\* one handleWalletCallback call with a payload of any form, before or after
\* one createConnectionRequest stored a record; addWallet may fail
NextToken ==
    \/ \E u \in Users, ch \in Chats : CreateStart(1, u, ch)
    \/ CreateInsert(1)
    \/ \E d \in TokenPayloads \cup MalformedPayloads
                 \cup InvalidPayloads \cup MismatchPayloads : CbStart(1, d)
    \/ \E p \in Callbacks : CbLookup(p)
    \/ \E p \in Callbacks : CbGetWallets(p)
    \/ \E p \in Callbacks : CbSetActive(p)
    \/ \E p \in Callbacks : CbAddWallet(p)
    \/ \E p \in Callbacks : CbAddWalletFails(p)
    \/ \E p \in Callbacks : CbComplete(p)
    \/ Tick

SpecToken == InitToken /\ [][NextToken]_vars

\* ------------------------- the service on both backends, side by side
\* two instances of the service, the first on the memory backend and the
\* second on the document store, receive the same calls one after the other
InitBoth ==
    /\ now = 0
    /\ memoryMode = TRUE
    /\ secretSet = TRUE
    /\ connections = <<>>
    /\ dbConnections = <<>>
    /\ wallets = [u \in WalletOwners |-> <<>>]
    /\ dbWallets = [u \in WalletOwners |-> <<>>]
    /\ create = [c \in CreateCalls |-> IdleCreate]
    /\ cb = [p \in Callbacks |-> IdleCallback]
    /\ sweepPc = "idle"
    /\ webUrlOk = TRUE
    /\ request = [c \in CreateCalls |-> NoRequest]
    /\ cancelReturned = {}
    /\ statusCall = IdleStatus
    /\ ledger = StoredLedger
    /\ db = ~memoryMode
    /\ connectPromise = 0
    /\ connectCall = [c \in ConnectCalls |-> IdleConnect]

\* createConnectionRequest on one instance, from call to return: the Store
\* after it
CreateOn(store, c, userId, chatId) ==
    IF PendingByUserOn(store, userId) # {}
    THEN store
    ELSE createPendingConnection(store, c,
             [userId |-> userId, chatId |-> chatId, expiresAt |-> now + TimeoutTicks])

\* createConnectionRequest(userId, chatId) on both instances; create[c]
\* keeps what the first instance returned
BothCreate(c, userId, chatId) ==
    /\ create[c].pc = "idle"
    /\ \A d \in CreateCalls : d < c => create[d].pc # "idle"
    /\ connections' = CreateOn(connections, c, userId, chatId)
    /\ dbConnections' = CreateOn(dbConnections, c, userId, chatId)
    /\ IF PendingByUserOn(connections, userId) # {}
       THEN \E id \in PendingByUserOn(connections, userId) :
              create' = [create EXCEPT ![c] =
                  [pc |-> "done", userId |-> userId, chatId |-> chatId,
                   expiresAt |-> connections[id].expiresAt, isNew |-> FALSE,
                   url |-> buildBrowserUrlWithExpiry(id, userId, connections[id].chatId,
                                                     connections[id].expiresAt)]]
       ELSE create' = [create EXCEPT ![c] =
                  [pc |-> "done", userId |-> userId, chatId |-> chatId,
                   expiresAt |-> now + TimeoutTicks, isNew |-> TRUE,
                   url |-> buildBrowserUrlWithExpiry(c, userId, chatId,
                                                     now + TimeoutTicks)]]
    /\ UNCHANGED <<now, memoryMode, connectVars, ledger, secretSet, webUrlOk, request, cancelReturned,
                   statusCall, dbWallets, wallets, cb, sweepPc>>

\* one run of the cleanup job on both instances
BothSweep ==
    /\ connections' = MemoryPass(deleteExpiredConnections(connections))
    /\ dbConnections' = deleteExpiredConnections(dbConnections)
    /\ UNCHANGED <<now, memoryMode, connectVars, ledger, secretSet, webUrlOk, request, cancelReturned,
                   statusCall, dbWallets, wallets, create, cb, sweepPc>>

\* handleWalletCallback on one instance, from call to return, with no other
\* call in between: the result, and the Store and the wallets after it
handleWalletCallbackOn(memory, store, ws, d, p) ==
    LET connection == getPendingConnectionOn(memory, store, d.connectionId)
        found == connection.status # "null"
        tokenPayload == decodeAndVerifyConnectionToken(d.connToken,
            [connectionId |-> d.connectionId,
             userId |-> IF found THEN connection.userId ELSE d.userId,
             chatId |-> IF found THEN connection.chatId ELSE d.chatId])
        error == IF EntryError(d) # "" THEN EntryError(d)
                 ELSE CallbackError(d, connection, tokenPayload)
        existingWallets == ws[d.userId]
        hasExisting == AddressIndex(existingWallets, d.walletAddress) # {}
        wallet == [id |-> p, address |-> d.walletAddress,
                   isActive |-> (Len(existingWallets) = 0)]
        taken == \E u \in WalletOwners : AddressIndex(ws[u], d.walletAddress) # {}
        completed == IF found
                     THEN completeConnection(store, d.connectionId, d.walletAddress)
                     ELSE store
        failure(message) ==
            [store |-> store, wallets |-> ws,
             result |-> [success |-> FALSE, error |-> message, isNew |-> FALSE]]
        outcome(message) ==
            IF message # "" THEN failure(message)
            ELSE IF hasExisting
            THEN [store |-> completed,
                  wallets |-> [ws EXCEPT ![d.userId] =
                      setActiveWallet(@, FindWallet(existingWallets, d.walletAddress).id)],
                  result |-> [success |-> TRUE, error |-> "", isNew |-> FALSE]]
            ELSE IF ~memory /\ taken THEN failure("E11000 duplicate key error")
            ELSE [store |-> completed,
                  wallets |-> [ws EXCEPT ![d.userId] = Append(@, wallet)],
                  result |-> [success |-> TRUE, error |-> "", isNew |-> TRUE]]
    IN  outcome(error)

\* handleWalletCallback(data) on both instances; cb[p] keeps what the first
\* instance returned
BothCallback(p, data) ==
    /\ cb[p].pc = "idle"
    /\ \A q \in Callbacks : q < p => cb[q].pc # "idle"
    /\ \E first \in {handleWalletCallbackOn(TRUE, connections, wallets, data, p)},
          second \in {handleWalletCallbackOn(FALSE, dbConnections, dbWallets, data, p)} :
           /\ connections' = first.store
           /\ wallets' = first.wallets
           /\ dbConnections' = second.store
           /\ dbWallets' = second.wallets
           /\ cb' = [cb EXCEPT ![p] = [IdleCallback EXCEPT
                       !.pc = "done", !.payload = data, !.lookupAt = now,
                       !.result = first.result,
                       !.after = {q \in Callbacks : cb[q].pc = "done"}]]
           /\ ledger' =
                 IF ~first.result.success THEN ledger
                 ELSE IF first.result.isNew
                 THEN Bookkeeping([ledger EXCEPT ![p] =
                                      NewEntry(ChainBalance(data.walletAddress))],
                                  data.walletAddress, p, TRUE)
                 ELSE Bookkeeping(ledger, data.walletAddress,
                          FindWallet(wallets[data.userId], data.walletAddress).id,
                          FALSE)
    /\ UNCHANGED <<now, memoryMode, connectVars, secretSet, webUrlOk, request, cancelReturned,
                   statusCall, create, sweepPc>>

\* cancelConnection on both instances is cancelConnection on the first: on
\* the document store it writes nothing
NextBoth ==
    \/ \E c \in CreateCalls, u \in Users, ch \in Chats : BothCreate(c, u, ch)
    \/ \E p \in Callbacks, d \in LinkPayloads : BothCallback(p, d)
    \/ \E id \in ConnIds : cancelConnection(id)
    \/ BothSweep
    \/ Tick

SpecBoth == InitBoth /\ [][NextBoth]_vars

\* ------------------------------ checkConnectionStatus and cancelConnection
\* Math.max(0, new Date(pending.expiresAt) - new Date()), in clock ticks
TimeLeft(expiresAt) ==
    IF expiresAt - now > 0 THEN expiresAt - now ELSE 0

\* checkConnectionStatus(userId) up to the return of status 'pending', or up
\* to the call of getUserWallets
StatusStart(userId) ==
    /\ statusCall.pc \in {"idle", "done"}
    /\ IF PendingByUser(userId) # {}
       THEN \E id \in PendingByUser(userId) :
              statusCall' = [pc |-> "done", userId |-> userId, status |-> "pending",
                             connectionId |-> Store[id].connectionId,
                             timeLeft |-> TimeLeft(Store[id].expiresAt)]
       ELSE statusCall' = [IdleStatus EXCEPT !.pc = "wallets", !.userId = userId]
    /\ UNCHANGED <<now, memoryMode, connectVars, ledger, secretSet, webUrlOk, request, cancelReturned,
                   dbWallets, connections, dbConnections, wallets, create, cb,
                   sweepPc>>

\* getUserWallets and the return of status 'connected' or 'disconnected'
StatusWallets ==
    /\ statusCall.pc = "wallets"
    /\ statusCall' = [statusCall EXCEPT
            !.pc = "done",
            !.status = IF Len(getUserWallets(statusCall.userId)) > 0
                       THEN "connected" ELSE "disconnected"]
    /\ UNCHANGED <<now, memoryMode, connectVars, ledger, secretSet, webUrlOk, request, cancelReturned,
                   dbWallets, connections, dbConnections, wallets, create, cb,
                   sweepPc>>

\* cancelConnection(connectionId) from call to the return of true, with the
\* record of the calls made while the connection was pending
CancelCall(connectionId) ==
    /\ connections' =
          IF memoryMode /\ connectionId \in DOMAIN connections
          THEN [connections EXCEPT ![connectionId].status = "cancelled"]
          ELSE connections
    /\ cancelReturned' =
          IF /\ connectionId \in DOMAIN Store
             /\ Store[connectionId].status = "pending"
          THEN cancelReturned \cup {connectionId}
          ELSE cancelReturned
    /\ UNCHANGED <<now, memoryMode, connectVars, ledger, secretSet, webUrlOk, request, statusCall,
                   dbWallets, dbConnections, wallets, create, cb, sweepPc>>

\* one createConnectionRequest call, one handleWalletCallback call with the
\* payload of a returned link, and calls of checkConnectionStatus and
\* cancelConnection at any time
NextApi ==
    \/ \E u \in Users, ch \in Chats : CreateStart(1, u, ch)
    \/ CreateInsert(1)
    \/ \E d \in LinkPayloads : CbStart(1, d)
    \/ \E p \in Callbacks : CbLookup(p)
    \/ \E p \in Callbacks : CbGetWallets(p)
    \/ \E p \in Callbacks : CbSetActive(p)
    \/ \E p \in Callbacks : CbAddWallet(p)
    \/ \E p \in Callbacks : CbComplete(p)
    \/ \E id \in ConnIds : CancelCall(id)
    \/ \E u \in Users : StatusStart(u)
    \/ StatusWallets
    \/ CleanupJob
    \/ CleanupMemoryPass
    \/ \E id \in ConnIds : TtlExpire(id)
    \/ Tick

SpecApi == InitAdv /\ [][NextApi]_vars

\* ---------------------- createConnectionRequest with arguments of any form
\* strings are sequences of characters; String(x) of a number x is its
\* decimal notation
DigitChars == <<"0", "1", "2", "3", "4", "5", "6", "7", "8", "9">>

IsDigit(ch) == \E i \in 1..Len(DigitChars) : DigitChars[i] = ch

DigitValue(ch) == (CHOOSE i \in 1..Len(DigitChars) : DigitChars[i] = ch) - 1

\* the result of Number.parseInt: NaN or an integer
NaN == [nan |-> TRUE, value |-> 0]

RECURSIVE SkipSpaces(_)
SkipSpaces(s) ==
    IF s # <<>> /\ Head(s) = " " THEN SkipSpaces(Tail(s)) ELSE s

RECURSIVE LeadingDigits(_)
LeadingDigits(s) ==
    IF s # <<>> /\ IsDigit(Head(s))
    THEN <<Head(s)>> \o LeadingDigits(Tail(s)) ELSE <<>>

RECURSIVE DecimalValue(_)
DecimalValue(digits) ==
    IF digits = <<>> THEN 0
    ELSE 10 * DecimalValue(SubSeq(digits, 1, Len(digits) - 1))
         + DigitValue(digits[Len(digits)])

\* Number.parseInt(string, 10): leading white space is skipped, a sign is
\* read, and the digits up to the first character that is no digit are the
\* value; NaN when there is no digit
parseInt(string) ==
    LET trimmed == SkipSpaces(string)
        signed == trimmed # <<>> /\ Head(trimmed) \in {"+", "-"}
        negative == trimmed # <<>> /\ Head(trimmed) = "-"
        digits == LeadingDigits(IF signed THEN Tail(trimmed) ELSE trimmed)
    IN  IF digits = <<>> THEN NaN
        ELSE [nan |-> FALSE,
              value |-> IF negative THEN 0 - DecimalValue(digits)
                                    ELSE DecimalValue(digits)]

\* !Number.isInteger(n) || n <= 0
NotPositive(n) == n.nan \/ n.value <= 0

\* the checks of lines 596-605, "" when both pass
ValidationError(rawUserId, rawChatId) ==
    IF NotPositive(parseInt(rawUserId)) THEN "Invalid userId"
    ELSE IF NotPositive(parseInt(rawChatId)) THEN "Invalid chatId"
    ELSE ""

UrlError == "TELEGRAM_WEB_APP_URL (or WEB_APP_URL) must be a public HTTP(S) URL"

\* String(n) of a number below ten
Decimal(n) == <<DigitChars[n + 1]>>

\* arguments a caller may pass that are no positive integer: 1.5, 0, -1,
\* 'abc' and the empty string
BadIds == {<<"1", ".", "5">>, <<"0">>, <<"-", "1">>, <<"a", "b", "c">>, <<>>}

\* pairs of arguments of which at most one is no positive integer
RawArguments ==
    {<<Decimal(u), Decimal(ch)>> : u \in Users, ch \in Chats}
    \cup {<<b, Decimal(ch)>> : b \in BadIds, ch \in Chats}
    \cup {<<Decimal(u), b>> : u \in Users, b \in BadIds}

\* a createConnectionRequest call that throws
CreateFails(c, rawUserId, rawChatId, message) ==
    /\ create' = [create EXCEPT ![c] = [IdleCreate EXCEPT !.pc = "failed"]]
    /\ request' = [request EXCEPT ![c] =
          [userId |-> rawUserId, chatId |-> rawChatId, error |-> message]]

\* createConnectionRequest(userId, chatId) with the arguments as passed: the
\* validation, then as CreateStart; buildBrowserUrlWithExpiry throws on
\* either path when the web URL is not a public one
CreateRequest(c, rawUserId, rawChatId) ==
    /\ create[c].pc = "idle"
    /\ \A d \in CreateCalls : d < c => create[d].pc # "idle"
    /\ IF ValidationError(rawUserId, rawChatId) # ""
       THEN CreateFails(c, rawUserId, rawChatId,
                        ValidationError(rawUserId, rawChatId))
       ELSE IF ~webUrlOk
       THEN CreateFails(c, rawUserId, rawChatId, UrlError)
       ELSE /\ CreateOutcome(c, parseInt(rawUserId).value, parseInt(rawChatId).value)
            /\ request' = [request EXCEPT ![c] =
                  [userId |-> rawUserId, chatId |-> rawChatId, error |-> ""]]
    /\ UNCHANGED <<now, memoryMode, connectVars, ledger, secretSet, webUrlOk, cancelReturned,
                   statusCall, dbWallets, connections, dbConnections,
                   wallets, cb, sweepPc>>

\* database.createPendingConnection on the document store rejects (insertOne
\* fails) and the error is rethrown through initiateWalletConnection
CreateInsertFails(c) ==
    /\ create[c].pc = "insert"
    /\ ~memoryMode
    /\ create' = [create EXCEPT ![c].pc = "failed"]
    /\ request' = [request EXCEPT ![c].error = "MongoNetworkError"]
    /\ UNCHANGED <<now, memoryMode, connectVars, ledger, secretSet, webUrlOk, cancelReturned,
                   statusCall, dbWallets, connections, dbConnections,
                   wallets, cb, sweepPc>>

\* the web URL of the deployment may be a local one
InitCreate ==
    /\ now = 0
    /\ memoryMode \in BOOLEAN
    /\ secretSet = TRUE
    /\ connections = <<>>
    /\ dbConnections = <<>>
    /\ wallets = [u \in WalletOwners |-> <<>>]
    /\ dbWallets = [u \in WalletOwners |-> <<>>]
    /\ create = [c \in CreateCalls |-> IdleCreate]
    /\ cb = [p \in Callbacks |-> IdleCallback]
    /\ sweepPc = "idle"
    /\ webUrlOk \in BOOLEAN
    /\ request = [c \in CreateCalls |-> NoRequest]
    /\ cancelReturned = {}
    /\ statusCall = IdleStatus
    /\ ledger = StoredLedger
    /\ db = ~memoryMode
    /\ connectPromise = 0
    /\ connectCall = [c \in ConnectCalls |-> IdleConnect]

\* createConnectionRequest calls with arguments of any form, the sweep and
\* the clock
NextCreate ==
    \/ \E c \in CreateCalls, a \in RawArguments : CreateRequest(c, a[1], a[2])
    \/ \E c \in CreateCalls : CreateInsert(c)
    \/ \E c \in CreateCalls : CreateInsertFails(c)
    \/ \E id \in ConnIds : CancelCall(id)
    \/ CleanupJob
    \/ CleanupMemoryPass
    \/ \E id \in ConnIds : TtlExpire(id)
    \/ Tick

SpecCreate == InitCreate /\ [][NextCreate]_vars

\* ------------------------------------------- the recurring cleanup job
\* setInterval(..., 60000) of startCleanupJob: the callback runs again and
\* again, and a run that has called deleteExpiredConnections goes on to its
\* pass over the memory map
SpecSweep ==
    /\ InitAdv
    /\ [][NextApi]_vars
    /\ WF_vars(CleanupJob)
    /\ WF_vars(CleanupMemoryPass)

\* ------------------------------------ Store calls that fail or time out
\* the message of the error a rejected operation of the document store
\* throws
StoreError == "MongoNetworkError"

\* getPendingConnection on the document store: findOne rejects, the error is
\* caught and the operation returns null
CbLookupFails(p) ==
    /\ cb[p].pc = "lookup"
    /\ ~memoryMode
    /\ cb' = [cb EXCEPT ![p] =
                [LookupOutcome(p, NullConn) EXCEPT
                    !.storeFailed = @ \cup {"getPendingConnection"}]]
    /\ UNCHANGED <<now, memoryMode, connectVars, ledger, secretSet, webUrlOk, request, cancelReturned,
                   statusCall, dbWallets, connections, dbConnections,
                   wallets, create, sweepPc>>

\* getUserWallets on the document store: find rejects, the error is caught
\* and the operation returns []
CbGetWalletsFails(p) ==
    /\ cb[p].pc = "getWallets"
    /\ ~memoryMode
    /\ cb' = [cb EXCEPT ![p] =
                [WalletsOutcome(p, <<>>) EXCEPT
                    !.storeFailed = @ \cup {"getUserWallets"}]]
    /\ UNCHANGED <<now, memoryMode, connectVars, ledger, secretSet, webUrlOk, request, cancelReturned,
                   statusCall, dbWallets, connections, dbConnections,
                   wallets, create, sweepPc>>

\* completeConnection on the document store: findOneAndUpdate rejects, the
\* error is caught and the operation returns null, which the call ignores
CbCompleteFails(p) ==
    /\ cb[p].pc = "complete"
    /\ ~memoryMode
    /\ cb' = [cb EXCEPT ![p] =
                [Succeed(p) EXCEPT !.storeFailed = @ \cup {"completeConnection"}]]
    /\ ledger' = Booked(ledger, p)
    /\ UNCHANGED <<now, memoryMode, connectVars, secretSet, webUrlOk, request, cancelReturned,
                   statusCall, dbWallets, connections, dbConnections,
                   wallets, create, sweepPc>>

\* database.addWallet on the document store: insertOne stores the wallet, the
\* update of the user document that follows rejects, and the error is
\* rethrown to handleWalletCallback
CbAddWalletUpdateFails(p) ==
    /\ cb[p].pc = "addWallet"
    /\ ~memoryMode
    /\ ~AddressTaken(cb[p].payload.walletAddress)
    /\ LET userId == cb[p].payload.userId
           wallet == [id |-> p, address |-> cb[p].payload.walletAddress,
                      isActive |-> (cb[p].existingCount = 0)]
       IN  /\ wallets' = [wallets EXCEPT ![userId] = Append(@, wallet)]
           /\ ledger' = [ledger EXCEPT ![p] = NewEntry(ChainBalance(wallet.address))]
    /\ cb' = [cb EXCEPT ![p] = Fail(p, StoreError)]
    /\ UNCHANGED <<now, memoryMode, connectVars, secretSet, webUrlOk, request,
                   cancelReturned, statusCall, dbWallets, connections,
                   dbConnections, create, sweepPc>>

\* one createConnectionRequest call and one handleWalletCallback call with
\* the payload of a returned link, on a document store whose operations may
\* fail at any call, or on the memory backend the service fell back to when
\* the connection to the document store failed at start
NextFail ==
    \/ \E u \in Users, ch \in Chats : CreateStart(1, u, ch)
    \/ CreateInsert(1)
    \/ CreateInsertFails(1)
    \/ \E d \in LinkPayloads : CbStart(1, d)
    \/ \E p \in Callbacks : CbLookup(p)
    \/ \E p \in Callbacks : CbLookupFails(p)
    \/ \E p \in Callbacks : CbGetWallets(p)
    \/ \E p \in Callbacks : CbGetWalletsFails(p)
    \/ \E p \in Callbacks : CbSetActive(p)
    \/ \E p \in Callbacks : CbAddWallet(p)
    \/ \E p \in Callbacks : CbAddWalletFails(p)
    \/ \E p \in Callbacks : CbAddWalletUpdateFails(p)
    \/ \E p \in Callbacks : CbComplete(p)
    \/ \E p \in Callbacks : CbCompleteFails(p)
    \/ CleanupJob
    \/ CleanupMemoryPass
    \/ Tick

SpecFail == InitAdv /\ [][NextFail]_vars

\* ------------------------------------ callers that post any signature
\* decoded lengths of strings that have 64 bytes under none of the three
\* encodings: a short and a long base64 string, a string that is base58 and
\* hex of other lengths, and a string of no encoding
OtherLengths ==
    {[base64 |-> SignatureSize - 1, base58 |-> DecodeThrows, hex |-> 0],
     [base64 |-> SignatureSize + 1, base58 |-> DecodeThrows, hex |-> 0],
     [base64 |-> 48, base58 |-> 47, hex |-> 32],
     [base64 |-> 0, base58 |-> DecodeThrows, hex |-> 0]}

\* the signature of key over message, posted as a string with the decoded
\* lengths l
Encoded(key, message, l) == [signer |-> key, message |-> message, lengths |-> l]

\* a walletAddress that is no public key
BadAddress == "not-a-public-key"

\* the payloads of a returned link with the wallet's signature posted in
\* base58 or hex, or as a string of another length, or with a walletAddress
\* that is no public key
SignaturePayloads ==
    {[LinkPayload(url, "walletA") EXCEPT !.signature = Encoded("walletA", url.challenge, l)] :
        url \in urls,
        l \in OtherLengths \cup
              {[base64 |-> 66, base58 |-> SignatureSize, hex |-> 0],
               [base64 |-> 96, base58 |-> DecodeThrows, hex |-> SignatureSize]}}
    \cup {[LinkPayload(url, "walletA") EXCEPT !.walletAddress = BadAddress] : url \in urls}

\* one createConnectionRequest call and one handleWalletCallback call with
\* the link's payload and a signature string of any form
NextSig ==
    \/ \E u \in Users, ch \in Chats : CreateStart(1, u, ch)
    \/ CreateInsert(1)
    \/ \E d \in LinkPayloads \cup SignaturePayloads : CbStart(1, d)
    \/ \E p \in Callbacks : CbLookup(p)
    \/ \E p \in Callbacks : CbGetWallets(p)
    \/ \E p \in Callbacks : CbSetActive(p)
    \/ \E p \in Callbacks : CbAddWallet(p)
    \/ \E p \in Callbacks : CbComplete(p)
    \/ Tick

SpecSig == InitAdv /\ [][NextSig]_vars

\* ------------------------- callers that post the signature in any encoding
\* 64-byte signatures a wallet may return: bytes of the largest value, bytes
\* without a zero, two leading zero bytes, and zero bytes only
SampleSignatures ==
    {[i \in 1..SignatureSize |-> 255],
     [i \in 1..SignatureSize |-> i],
     [i \in 1..SignatureSize |-> IF i = 3 THEN 1 ELSE 0],
     [i \in 1..SignatureSize |-> 0]}

\* the accepted wire encodings of a signature
WireFormats(raw) == {base64Encode(raw), base58Encode(raw), hexEncode(raw)}

\* the signatures with their wire encodings
WireSamples ==
    UNION {{[raw |-> raw, wire |-> w] : w \in WireFormats(raw)} :
              raw \in SampleSignatures}

\* the signature raw of key over message, posted as the string wire
Posted(key, message, sample) ==
    [signer |-> key, message |-> message, raw |-> sample.raw,
     wire |-> sample.wire]

\* the payloads of a returned link with the wallet's signature over the
\* link's challenge, posted in base64, base58 or hex
WirePayloads ==
    {[LinkPayload(url, "walletA") EXCEPT
         !.signature = Posted("walletA", url.challenge, sample)] :
        url \in urls, sample \in WireSamples}

\* one createConnectionRequest call and one handleWalletCallback call with
\* the link's payload and the wallet's signature in any accepted encoding
NextCodec ==
    \/ \E u \in Users, ch \in Chats : CreateStart(1, u, ch)
    \/ CreateInsert(1)
    \/ \E d \in WirePayloads : CbStart(1, d)
    \/ \E p \in Callbacks : CbLookup(p)
    \/ \E p \in Callbacks : CbGetWallets(p)
    \/ \E p \in Callbacks : CbSetActive(p)
    \/ \E p \in Callbacks : CbAddWallet(p)
    \/ \E p \in Callbacks : CbComplete(p)
    \/ Tick

SpecCodec == InitAdv /\ [][NextCodec]_vars

\* ------------------------------- links asked for from more than one chat
\* the chats a user may ask for a link from
LinkChats == 1..(MaxChat + 1)

\* createConnectionRequest calls of a user from any of its chats, one
\* handleWalletCallback call with the payload of a returned link, the sweep
\* and the clock
NextLink ==
    \/ \E c \in CreateCalls, u \in Users, ch \in LinkChats : CreateStart(c, u, ch)
    \/ \E c \in CreateCalls : CreateInsert(c)
    \/ \E d \in LinkPayloads : CbStart(1, d)
    \/ \E p \in Callbacks : CbLookup(p)
    \/ \E p \in Callbacks : CbGetWallets(p)
    \/ \E p \in Callbacks : CbSetActive(p)
    \/ \E p \in Callbacks : CbAddWallet(p)
    \/ \E p \in Callbacks : CbComplete(p)
    \/ CleanupJob
    \/ CleanupMemoryPass
    \/ \E id \in ConnIds : TtlExpire(id)
    \/ Tick

SpecLink == InitAdv /\ [][NextLink]_vars

\* ------------------------------------------------------ Database.connect
\* the state connect() leaves alone
serviceVars == <<now, secretSet, connections, dbConnections, wallets, dbWallets,
                 create, cb, sweepPc, webUrlOk, request, cancelReturned,
                 statusCall, ledger>>

\* connect() without the test of connectPromise: every call starts an attempt
Joins_Never == FALSE

\* connect(): 'if (this.connectPromise) return this.connectPromise'
Joins == connectPromise # 0

\* the fields _connectInternal leaves when the await it is at settles: lines
\* 119-121 after the ping, the catch of lines 123-133 after an error; the
\* function catches every error of its body and never rejects
connectInternal(ok) ==
    IF ok THEN [memoryMode |-> FALSE, db |-> db, rejected |-> FALSE]
    ELSE [memoryMode |-> TRUE, db |-> FALSE, rejected |-> FALSE]

\* the promise of call c's _connectInternal settles: the continuation of call
\* c clears connectPromise (the finally of lines 36-38) and every call that
\* awaits the promise returns, all before the next I/O event is handled
Settle(c, outcome) ==
    /\ memoryMode' = outcome.memoryMode
    /\ db' = outcome.db
    /\ connectPromise' = 0
    /\ connectCall' =
          [d \in ConnectCalls |->
              IF connectCall[d].promise = c
                 /\ connectCall[d].pc \in {"clientConnect", "ping", "joined"}
              THEN [connectCall[d] EXCEPT
                       !.pc = IF outcome.rejected THEN "rejected" ELSE "resolved"]
              ELSE connectCall[d]]

\* connect() up to the first await: the call joins the attempt in flight, or
\* its _connectInternal returns at once on a connected document store (lines
\* 79-81), or it starts an attempt and awaits client.connect() (line 108).
\* MONGODB_URI is set: without it line 93 selects the memory backend as the
\* catch does
ConnectStart(c) ==
    /\ connectCall[c].pc = "idle"
    /\ IF Joins
       THEN /\ connectCall' = [connectCall EXCEPT
                                 ![c] = [pc |-> "joined", promise |-> connectPromise]]
            /\ UNCHANGED <<memoryMode, db, connectPromise>>
       ELSE IF db /\ ~memoryMode
       THEN /\ connectCall' = [connectCall EXCEPT
                                 ![c] = [pc |-> "resolved", promise |-> c]]
            /\ UNCHANGED <<memoryMode, db, connectPromise>>
       ELSE /\ connectPromise' = c
            /\ connectCall' = [connectCall EXCEPT
                                 ![c] = [pc |-> "clientConnect", promise |-> c]]
            /\ UNCHANGED <<memoryMode, db>>
    /\ UNCHANGED serviceVars

\* bootstrap(): connect() only when database.db is not set
bootstrap(c) ==
    /\ connectCall[c].pc = "idle"
    /\ IF db
       THEN /\ connectCall' = [connectCall EXCEPT ![c].pc = "skipped"]
            /\ UNCHANGED <<memoryMode, db, connectPromise, serviceVars>>
       ELSE ConnectStart(c)

\* client.connect() settles: db is set (line 109) and createIndexes and the
\* ping are awaited, or the error is caught
ClientConnect(c, ok) ==
    /\ connectCall[c].pc = "clientConnect"
    /\ IF ok
       THEN /\ db' = TRUE
            /\ connectCall' = [connectCall EXCEPT ![c].pc = "ping"]
            /\ UNCHANGED <<memoryMode, connectPromise>>
       ELSE Settle(c, connectInternal(FALSE))
    /\ UNCHANGED serviceVars

\* db.admin().ping() settles (line 117)
Ping(c, ok) ==
    /\ connectCall[c].pc = "ping"
    /\ Settle(c, connectInternal(ok))
    /\ UNCHANGED serviceVars

\* the state the constructor leaves: no backend selected, nothing stored
InitConnect ==
    /\ now = 0
    /\ memoryMode = FALSE
    /\ secretSet = TRUE
    /\ connections = <<>>
    /\ dbConnections = <<>>
    /\ wallets = [u \in WalletOwners |-> <<>>]
    /\ dbWallets = [u \in WalletOwners |-> <<>>]
    /\ create = [c \in CreateCalls |-> IdleCreate]
    /\ cb = [p \in Callbacks |-> IdleCallback]
    /\ sweepPc = "idle"
    /\ webUrlOk = TRUE
    /\ request = [c \in CreateCalls |-> NoRequest]
    /\ cancelReturned = {}
    /\ statusCall = IdleStatus
    /\ ledger = StoredLedger
    /\ db = FALSE
    /\ connectPromise = 0
    /\ connectCall = [c \in ConnectCalls |-> IdleConnect]

\* an API handler awaits bootstrap() before it calls the service: the service
\* runs once database.db is set or a connect() call has returned
Bootstrapped == db \/ memoryMode

\* connect() and bootstrap() calls that overlap and follow each other, with a
\* document store that may be unreachable at any attempt, around
\* createConnectionRequest calls, the cleanup job and the clock
NextConnect ==
    \/ \E c \in ConnectCalls : ConnectStart(c)
    \/ \E c \in ConnectCalls : bootstrap(c)
    \/ \E c \in ConnectCalls, ok \in BOOLEAN : ClientConnect(c, ok)
    \/ \E c \in ConnectCalls, ok \in BOOLEAN : Ping(c, ok)
    \/ \E c \in CreateCalls, u \in Users, ch \in Chats :
          Bootstrapped /\ CreateStart(c, u, ch)
    \/ \E c \in CreateCalls : CreateInsert(c)
    \/ CleanupJob
    \/ CleanupMemoryPass
    \/ Tick

SpecConnect == InitConnect /\ [][NextConnect]_vars

\* the same calls in a process whose first connect() has returned, as
\* server.js awaits it before it listens: the document store is selected, or
\* the memory backend after the first attempt failed
SpecRetry == InitAdv /\ [][NextConnect]_vars

\* ==================================================================== claims
Done(p) == cb[p].pc = "done"

\* neither call had returned when the other was made
Overlap(p, q) == p # q /\ p \notin cb[q].after /\ q \notin cb[p].after

\* the lookup of call p was made before the exp of its token
LookupBeforeExp(p) == cb[p].lookupAt < cb[p].payload.connToken.encodedPayload.exp

\* C1: of two overlapping handleWalletCallback calls on one connectionId with
\* fully valid payloads (each looked up before the token's exp), when one
\* returns success the other returns the failure 'Connection already used'
\* (and so adds or activates no wallet).
C1_OneSuccessOtherAlreadyUsed ==
    \A p, q \in Callbacks :
        ( /\ Overlap(p, q) /\ Done(p) /\ Done(q)
          /\ cb[p].payload.connectionId = cb[q].payload.connectionId
          /\ LookupBeforeExp(p) /\ LookupBeforeExp(q)
          /\ cb[p].result.success )
        => /\ ~cb[q].result.success
           /\ cb[q].result.error = "Connection already used"

\* the links whose token a payload carries
LinksOfToken(d) == {url \in urls : url.connToken = d.connToken}

\* C2: a call returns success only if its connToken is the token of a link
\* returned by createConnectionRequest for the payload's connectionId,
\* userId and chatId, and the token's exp had not passed at the lookup.
C2_SuccessNeedsIssuedToken ==
    \A p \in Callbacks :
        (Done(p) /\ cb[p].result.success)
        => \E url \in LinksOfToken(cb[p].payload) :
              /\ url.connectionId = cb[p].payload.connectionId
              /\ url.userId = cb[p].payload.userId
              /\ url.chatId = cb[p].payload.chatId
              /\ cb[p].lookupAt <= url.expiresAt

\* the expiry bound into the handshake a call is about: the record's, or
\* the token's when the lookup found no record
HandshakeExpiry(p) ==
    IF cb[p].hasConn THEN cb[p].connExpiresAt
                     ELSE cb[p].payload.connToken.encodedPayload.exp

\* the payload of call p carries the signature that wallet key k gave for
\* the link url, and the call is about another handshake or claims another key
ReplayedSignature(p, url, k) ==
    /\ cb[p].payload.signature = Sign(k, url.challenge)
    /\ \/ k # cb[p].payload.walletAddress
       \/ url.connectionId # cb[p].payload.connectionId
       \/ url.userId # cb[p].payload.userId
       \/ url.chatId # cb[p].payload.chatId
       \/ url.expiresAt # HandshakeExpiry(p)

ErrorsUpToSignature ==
    {"Connection payload mismatch", "Invalid connection token",
     "Connection already used", "Connection link expired",
     "Invalid wallet address", "Invalid wallet signature"}

C4_SuccessNeedsLiveRecord ==
    \A p \in Callbacks :
        (Done(p) /\ cb[p].result.success)
        => /\ cb[p].hasConn
           /\ cb[p].connStatus = "pending"
           /\ cb[p].lookupAt <= cb[p].connExpiresAt

\* C5: when a call has returned success and the same payload is posted again
\* afterwards, before expiresAt, the second call returns the failure
\* 'Connection already used'.
C5_SecondCallAlreadyUsed ==
    \A p, q \in Callbacks :
        ( /\ Done(p) /\ Done(q) /\ p \in cb[q].after
          /\ cb[p].payload = cb[q].payload
          /\ cb[p].result.success
          /\ LookupBeforeExp(q) )
        => /\ ~cb[q].result.success
           /\ cb[q].result.error = "Connection already used"

\* the status of record id changes from a to b in a step (a record that is
\* removed has no status any more)
StatusStep(id, a, b) ==
    /\ id \in DOMAIN Store /\ id \in DOMAIN Store'
    /\ Store[id].status = a /\ Store'[id].status = b

\* C6: in every step a record keeps its status or goes from pending to
\* completed or to cancelled (or is removed): a completed record gets no
\* other status and a cancelled record does not become completed.
C6_MonotonicStatus ==
    [][\A id \in ConnIds :
          (id \in DOMAIN Store /\ id \in DOMAIN Store')
          => \/ Store'[id].status = Store[id].status
             \/ StatusStep(id, "pending", "completed")
             \/ StatusStep(id, "pending", "cancelled")]_vars

\* call p executes database.completeConnection in this step
CompleteStep(p) == cb[p].pc = "complete" /\ cb'[p].pc # "complete"

\* C7: completeConnection sets status = completed and walletAddress only on
\* a record whose status is pending at the write, and leaves every other
\* record as it is.
C7_CompleteOnlyPending ==
    [][\A p \in Callbacks :
          ( /\ CompleteStep(p)
            /\ cb[p].payload.connectionId \in DOMAIN Store
            /\ Store[cb[p].payload.connectionId].status # "pending" )
          => Store' = Store]_vars

\* call p returns success in this step
SuccessStep(p) == cb[p].pc # "done" /\ cb'[p].pc = "done" /\ cb'[p].result.success

\* C8: when a call that found its record at the lookup returns success, the
\* record is in the Store with status completed and the call's
\* walletAddress, whatever sweep or cancel ran since the lookup (stated for
\* the memory backend, where only the sweep removes a record).
C8_SuccessMeansCompleted ==
    [][\A p \in Callbacks :
          (memoryMode /\ SuccessStep(p) /\ cb[p].hasConn)
          => /\ cb[p].payload.connectionId \in DOMAIN Store'
             /\ Store'[cb[p].payload.connectionId].status = "completed"
             /\ Store'[cb[p].payload.connectionId].walletAddress
                    = cb[p].payload.walletAddress]_vars

\* a step of the cleanup job
SweepStep == CleanupJob \/ CleanupMemoryPass

\* C9: a step of the sweep removes every pending record whose expiresAt has
\* passed and leaves in place, unchanged, every record that is unexpired and
\* every record whose status is completed.
C9_SweepFrame ==
    [][SweepStep =>
         \A id \in DOMAIN Store :
            /\ (Store[id].status = "pending" /\ Store[id].expiresAt < now)
                  => id \notin DOMAIN Store'
            /\ (Store[id].status = "completed" \/ ~(Store[id].expiresAt < now))
                  => (id \in DOMAIN Store' /\ Store'[id] = Store[id])]_vars

\* C10: at a fixed clock value a second sweep run changes nothing after a
\* first one, and a step of the sweep creates no record and changes no
\* field of a record it keeps.
C10_SweepIdempotent ==
    /\ [](SweepRun(SweepRun(Store)) = SweepRun(Store))
    /\ [][SweepStep =>
            \A id \in DOMAIN Store' :
                id \in DOMAIN Store /\ Store'[id] = Store[id]]_vars

\* a record that was created is gone after the first step of a sweep of the
\* memory backend, while an unexpired record is still there
C10_Witness ==
    /\ memoryMode /\ sweepPc = "memoryPass"
    /\ \E c \in CreateCalls :
          create[c].pc = "done" /\ create[c].isNew /\ c \notin DOMAIN connections
    /\ \E id \in DOMAIN connections : ~(connections[id].expiresAt < now)

\* C11: on both backends getPendingConnection (and getConnection) returns a
\* record only if its status is pending and its expiresAt is later than now;
\* for a missing, completed, cancelled or expired record it returns null.
C11_LookupOnlyLivePending ==
    \A id \in ConnIds :
        /\ getConnection(id) = getPendingConnection(id)
        /\ getPendingConnection(id).status # "null"
              => /\ getPendingConnection(id).status = "pending"
                 /\ getPendingConnection(id).expiresAt > now

C14_OnePendingPerUser ==
    \A u \in Users : Cardinality(PendingByUser(u)) <= 1

\* the identifiers a token can be issued for or compared with
TokenIds == 1..(MaxCreate + 1)

\* C15: for all connectionId, userId, chatId and exp, the verification of
\* the generated token returns the payload (with its exp) when the expected
\* triple is the issued one and now is not past exp; it returns null when
\* now is past exp and when the expected triple differs from the issued one
\* in connectionId, in userId or in chatId.
C15_TokenRoundTrip ==
    \A c \in ConnIds : \A u \in Users : \A ch \in Chats : \A exp \in TokenExps :
        LET token == generateConnectionToken(c, u, ch, exp)
            same == [connectionId |-> c, userId |-> u, chatId |-> ch]
        IN  /\ (now <= exp) =>
                  decodeAndVerifyConnectionToken(token, same)
                      = [ok |-> TRUE, exp |-> exp, threw |-> FALSE]
            /\ (now > exp) =>
                  decodeAndVerifyConnectionToken(token, same) = TokenNull
            /\ \A x \in TokenIds :
                  /\ x # c => decodeAndVerifyConnectionToken(token,
                                 [same EXCEPT !.connectionId = x]) = TokenNull
                  /\ x # u => decodeAndVerifyConnectionToken(token,
                                 [same EXCEPT !.userId = x]) = TokenNull
                  /\ x # ch => decodeAndVerifyConnectionToken(token,
                                  [same EXCEPT !.chatId = x]) = TokenNull

\* a call has passed the verification of a token generated for its ids, at
\* the last instant before the token's exp is past
C15_Witness ==
    \E p \in Callbacks :
        /\ cb[p].pc = "getWallets"
        /\ cb[p].payload.connToken =
              generateConnectionToken(cb[p].payload.connectionId, cb[p].payload.userId,
                                      cb[p].payload.chatId, cb[p].lookupAt)
        /\ cb[p].lookupAt > 0

\* the tokens that fail the verification for one of the causes: malformed,
\* signed with another key, expired, or issued for another triple
FailingTokens(c, u, ch) ==
    MalformedTokens(DevSecret, c, u, ch)
    \cup MalformedTokens(EnvSecret, c, u, ch)
    \cup {[encodedPayload |-> t.encodedPayload,
           signature |-> Hmac("another-secret", t.encodedPayload)] :
              t \in {generateConnectionToken(c, u, ch, ForgedExp)}}
    \cup {generateConnectionToken(c, u, ch, exp) :
              exp \in {e \in TokenExps : now > e}}
    \cup {generateConnectionToken(c + 1, u, ch, ForgedExp),
          generateConnectionToken(c, u + 1, ch, ForgedExp),
          generateConnectionToken(c, u, ch + 1, ForgedExp)}

\* the triple the token of a call at the lookup is compared with
ExpectedTriple(p) ==
    LET d == cb[p].payload
        connection == getPendingConnection(d.connectionId)
        found == connection.status # "null"
    IN  [connectionId |-> d.connectionId,
         userId |-> IF found THEN connection.userId ELSE d.userId,
         chatId |-> IF found THEN connection.chatId ELSE d.chatId]

\* call p executes its lookup and the checks after it in this step
LookupStep(p) == cb[p].pc = "lookup" /\ cb'[p].pc # "lookup"

\* C16: the verification never throws and gives the one outcome null for
\* every cause of failure (no string, empty, no delimiter, payload that does
\* not decode, empty or short or non-ASCII signature, signature of another
\* key, expired exp, other triple), and a call whose token fails the
\* verification, when the record (if any) matches the payload, returns the
\* failure 'Invalid connection token'.
C16_TokenFailuresUniform ==
    /\ [](\A c \in ConnIds : \A u \in Users : \A ch \in Chats :
            \A t \in FailingTokens(c, u, ch) :
               decodeAndVerifyConnectionToken(t,
                   [connectionId |-> c, userId |-> u, chatId |-> ch]) = TokenNull)
    /\ [][\A p \in Callbacks :
            ( /\ LookupStep(p)
              /\ ExpectedTriple(p).userId = cb[p].payload.userId
              /\ ExpectedTriple(p).chatId = cb[p].payload.chatId
              /\ ~VerifyTokenBody(cb[p].payload.connToken, ExpectedTriple(p)).ok )
            => cb'[p].result = [success |-> FALSE,
                                error |-> "Invalid connection token",
                                isNew |-> FALSE]]_vars

\* a call whose connToken makes the try block throw has returned 'Invalid
\* connection token'
C16_Witness ==
    \E p \in Callbacks :
        /\ Done(p)
        /\ cb[p].result.error = "Invalid connection token"
        /\ VerifyTokenBody(cb[p].payload.connToken, ExpectedTriple(p)).threw

\* C17: a call that carries the ids, the token and the challenge of a link
\* createConnectionRequest returned, a well-formed walletAddress and that
\* wallet's signature over the challenge, and whose lookup found the pending
\* record before its expiresAt, returns success (the Store being reachable),
\* the address is among the user's wallets and the record has status
\* completed and that walletAddress.
C17_ValidCallbackSucceeds ==
    \A p \in Callbacks : \A url \in urls :
        ( /\ Done(p)
          /\ cb[p].payload = LinkPayload(url, cb[p].payload.walletAddress)
          /\ isValidAddress(cb[p].payload.walletAddress)
          /\ cb[p].hasConn /\ cb[p].connStatus = "pending"
          /\ cb[p].lookupAt < url.expiresAt
          /\ cb[p].result.error # "MongoNetworkError" )
        => /\ cb[p].result.success
           /\ AddressIndex(wallets[url.userId], cb[p].payload.walletAddress) # {}
           /\ url.connectionId \in DOMAIN Store
           /\ Store[url.connectionId].status = "completed"
           /\ Store[url.connectionId].walletAddress = cb[p].payload.walletAddress

\* C18: a call made after the expiresAt of its link with the link's ids and
\* token and a valid signature, while the pending record is still in the
\* Store, returns the failure 'Connection link expired'.
C18_ExpiredLinkError ==
    [][\A p \in Callbacks : \A url \in urls :
          ( /\ LookupStep(p)
            /\ cb[p].payload = LinkPayload(url, cb[p].payload.walletAddress)
            /\ isValidAddress(cb[p].payload.walletAddress)
            /\ now > url.expiresAt
            /\ url.connectionId \in DOMAIN Store
            /\ Store[url.connectionId].status = "pending" )
          => cb'[p].result = [success |-> FALSE, error |-> "Connection link expired",
                              isNew |-> FALSE]]_vars

\* the lookup of call p returns a record whose userId or chatId is not the
\* payload's
PayloadMismatch(p) ==
    LET d == cb[p].payload
        connection == getPendingConnection(d.connectionId)
    IN  /\ connection.status # "null"
        /\ (connection.userId # d.userId \/ connection.chatId # d.chatId)

\* C19: when the lookup returns a record for the payload's connectionId and
\* the payload's userId or chatId is not the record's, the call returns the
\* failure 'Connection payload mismatch' whatever its token and signature
\* are (the comparison precedes the token verification), and the Store and
\* the wallets are unchanged.
C19_MismatchFirst ==
    [][\A p \in Callbacks :
          (LookupStep(p) /\ PayloadMismatch(p))
          => /\ cb'[p].result = [success |-> FALSE,
                                 error |-> "Connection payload mismatch",
                                 isNew |-> FALSE]
             /\ cb'[p].pc = "done"
             /\ Store' = Store /\ wallets' = wallets]_vars

\* a call with another chatId than the record's and a connToken that is no
\* string has returned 'Connection payload mismatch'
C19_Witness ==
    \E p \in Callbacks :
        /\ Done(p)
        /\ cb[p].hasConn
        /\ cb[p].payload.chatId = MaxChat + 1
        /\ TokenForm(cb[p].payload.connToken) = "nonstring"
        /\ cb[p].result.error = "Connection payload mismatch"

\* C20: a call is always at a step of the handler or has returned, never
\* left by an exception, and a call that has returned without success
\* carries an error message, whatever the payload and also when the Store
\* rejects.
C20_NeverThrows ==
    \A p \in Callbacks :
        /\ cb[p].pc \in {"idle", "lookup", "getWallets", "setActive", "addWallet",
                          "complete", "done"}
        /\ Done(p) => (cb[p].result.success <=> cb[p].result.error = "")

\* a call has returned a failure result for an addWallet the Store rejected
C20_Witness ==
    \E p \in Callbacks :
        /\ Done(p) /\ ~cb[p].result.success
        /\ cb[p].result.error \in {"MongoNetworkError", "E11000 duplicate key error"}

\* C12: in every sequence of createConnectionRequest, handleWalletCallback,
\* cancelConnection and sweep calls made, one call after the other, to the
\* service on the memory backend and to the service on the document store,
\* each handleWalletCallback returns the same result on both; and after
\* every such sequence getConnection returns the same on both for every
\* connectionId, and so does the lookup of a user's pending connection that
\* createConnectionRequest and checkConnectionStatus make.
C12_BackendsAgree ==
    /\ [](\A id \in ConnIds :
            getPendingConnectionOn(TRUE, connections, id)
                = getPendingConnectionOn(FALSE, dbConnections, id))
    /\ [](\A u \in Users :
            PendingByUserOn(connections, u) = PendingByUserOn(dbConnections, u))
    /\ [][\A p \in Callbacks : \A d \in LinkPayloads :
            BothCallback(p, d)
            => handleWalletCallbackOn(TRUE, connections, wallets, d, p).result
                 = handleWalletCallbackOn(FALSE, dbConnections, dbWallets, d, p).result]_vars

\* the wallet records of a user that carry an address
RecordsOf(userId, address) == AddressIndex(wallets[userId], address)

\* C21: in every reachable state, overlapping successful calls for one user
\* and one wallet address included, a user has at most one wallet record per
\* wallet address.
C21_OneRecordPerAddress ==
    \A u \in Users : \A k \in Keys : Cardinality(RecordsOf(u, k)) <= 1

\* the wallet records of a user with isActive = true
ActiveRecords(userId) ==
    {i \in 1..Len(wallets[userId]) : wallets[userId][i].isActive}

\* C22: in every reachable state, overlapping calls for two wallets of one
\* user included, at most one wallet record per user has isActive = true.
C22_OneActiveWallet ==
    \A u \in Users : Cardinality(ActiveRecords(u)) <= 1

\* the records of a user with status pending and expiresAt later than now
LiveRecords(userId) ==
    {id \in DOMAIN Store : /\ Store[id].userId = userId
                          /\ Store[id].status = "pending"
                          /\ now < Store[id].expiresAt}

C26_CancelTakesEffect ==
    \A id \in cancelReturned :
        id \in DOMAIN Store => Store[id].status = "cancelled"

\* an argument that is a positive integer: digits only, with a value above 0
IsPositiveInteger(raw) ==
    /\ raw # <<>>
    /\ \A i \in 1..Len(raw) : IsDigit(raw[i])
    /\ DecimalValue(raw) > 0

\* a step in which createConnectionRequest call c throws
CreateFailStep(c) == create[c].pc # "failed" /\ create'[c].pc = "failed"

\* C24: a createConnectionRequest call whose userId or chatId is no positive
\* integer fails with 'Invalid userId' or 'Invalid chatId', and a call that
\* fails, for that or any other reason, creates and changes no connection
\* record.
C24_InvalidArgumentsFail ==
    /\ [](\A c \in CreateCalls :
            (/\ create[c].pc # "idle"
             /\ \/ ~IsPositiveInteger(request[c].userId)
                \/ ~IsPositiveInteger(request[c].chatId))
            => /\ create[c].pc = "failed"
               /\ request[c].error \in {"Invalid userId", "Invalid chatId"})
    /\ [][\A c \in CreateCalls :
            CreateFailStep(c) => UNCHANGED <<connections, dbConnections>>]_vars

\* C25: a createConnectionRequest call that creates a handshake writes the
\* Store once, adding the new pending record and changing no other; a call
\* that reuses a pending record writes nothing and returns a link with the
\* connectionId and the expiresAt of that record, which stays as it was.
C25_OneStoreWrite ==
    [][\A c \in CreateCalls :
        /\ (create[c].pc = "idle" /\ create'[c].pc # "idle")
           => /\ UNCHANGED <<connections, dbConnections>>
              /\ (create'[c].pc = "done")
                 => /\ ~create'[c].isNew
                    /\ LET id == create'[c].url.connectionId
                       IN  /\ id \in DOMAIN Store
                           /\ Store[id].status = "pending"
                           /\ Store[id].expiresAt = create'[c].url.expiresAt
                           /\ Store[id].userId = create'[c].url.userId
                           /\ Store[id].chatId = create'[c].url.chatId
        /\ (create[c].pc = "insert" /\ create'[c].pc = "done")
           => /\ create'[c].isNew
              /\ c \notin DOMAIN Store
              /\ IF memoryMode
                 THEN /\ DOMAIN connections' = DOMAIN connections \cup {c}
                      /\ \A id \in DOMAIN connections :
                            connections'[id] = connections[id]
                      /\ connections'[c].status = "pending"
                      /\ connections'[c].expiresAt = create[c].expiresAt
                      /\ UNCHANGED dbConnections
                 ELSE /\ DOMAIN dbConnections' = DOMAIN dbConnections \cup {c}
                      /\ \A id \in DOMAIN dbConnections :
                            dbConnections'[id] = dbConnections[id]
                      /\ dbConnections'[c].status = "pending"
                      /\ dbConnections'[c].expiresAt = create[c].expiresAt
                      /\ UNCHANGED connections]_vars

\* a call has returned the link of a record an earlier call created, and
\* the record is in the Store with the expiresAt of the link
C25_Witness ==
    \E c \in CreateCalls :
        /\ create[c].pc = "done" /\ ~create[c].isNew
        /\ create[c].url.connectionId # c
        /\ create[c].url.connectionId \in DOMAIN Store
        /\ Store[create[c].url.connectionId].expiresAt = create[c].url.expiresAt

\* record id is in the Store with status pending
IsPending(id) == id \in DOMAIN Store /\ Store[id].status = "pending"

\* C27: with the cleanup job running again and again, a pending record whose
\* expiresAt has passed does not stay pending: it is completed, cancelled or
\* removed.
C27_ExpiredPendingLeaves ==
    \A id \in ConnIds :
        (IsPending(id) /\ Store[id].expiresAt < now) ~> ~IsPending(id)

\* on the memory backend, which has no TTL index, a record that a call
\* created is gone from the Store after its expiresAt
C27_Witness ==
    /\ memoryMode
    /\ \E c \in CreateCalls :
          /\ create[c].pc = "done" /\ create[c].isNew
          /\ create[c].expiresAt < now
          /\ c \notin DOMAIN connections
          /\ \A p \in Callbacks : cb[p].pc = "idle"

\* C28: neither a createConnectionRequest call nor a handleWalletCallback
\* call fails because an operation of the document store is rejected: the
\* Store falls back to the memory backend.
C28_FallbackNoFailure ==
    /\ \A c \in CreateCalls :
          create[c].pc = "failed" => request[c].error # StoreError
    /\ \A p \in Callbacks :
          Done(p) => cb[p].result.error # StoreError

\* C29: a handleWalletCallback call during which a Store operation (lookup,
\* wallet read, completion) failed returns a failure whose error names the
\* Store failure: not a success, and not a verification failure.
C29_StoreFailureSurfaced ==
    \A p \in Callbacks :
        (Done(p) /\ cb[p].storeFailed # {})
        => /\ ~cb[p].result.success
           /\ cb[p].result.error = StoreError

\* a signature string that has 64 bytes under none of base64, base58, hex
Undecodable(signature) ==
    \/ signature = EmptySignature
    \/ /\ "lengths" \in DOMAIN signature
       /\ signature.lengths.base64 # SignatureSize
       /\ signature.lengths.base58 # SignatureSize
       /\ signature.lengths.hex # SignatureSize

\* the signatures of the wallets over the challenges of the returned links,
\* posted as strings of every modelled form, and the empty string
PostedSignatures ==
    {EmptySignature}
    \cup {Sign(k, url.challenge) : k \in Keys, url \in urls}
    \cup {Encoded(k, url.challenge, l) : k \in Keys, url \in urls, l \in OtherLengths}

\* C30: verifyWalletSignature returns false, the exception of its try block
\* included, for every signature string that has 64 bytes under none of
\* base64, base58 and hex, the empty string included, and for every
\* walletAddress that is no public key, whatever the other arguments.
C30_UndecodableRejected ==
    \A url \in urls : \A sg \in PostedSignatures :
        \A address \in Keys \cup {BadAddress} :
            (Undecodable(sg) \/ address = BadAddress)
            => verifyWalletSignature(address, sg, url.challenge) = FALSE

\* a call with the link's payload and the wallet's signature over the
\* link's challenge, posted as a string that has 64 bytes under no encoding,
\* has returned 'Invalid wallet signature'
C30_Witness ==
    \E p \in Callbacks :
        /\ Done(p)
        /\ cb[p].result.error = "Invalid wallet signature"
        /\ Undecodable(cb[p].payload.signature)
        /\ cb[p].payload.signature.signer = cb[p].payload.walletAddress
        /\ \E url \in urls : cb[p].payload.signature.message = url.challenge

\* C31: decodeSignature returns the 64 bytes of a signature for each of its
\* accepted wire encodings (base64, base58, hex), so a handleWalletCallback
\* call with the wallet's signature over the link's challenge does not fail
\* with 'Invalid wallet signature' in any of the three.
C31_DecodeRoundTrip ==
    [][\A p \in Callbacks :
        (/\ cb[p].pc = "lookup" /\ cb'[p].pc # "lookup"
         /\ "wire" \in DOMAIN cb[p].payload.signature)
        => /\ DecodeWire(cb[p].payload.signature.wire).buffer
                = cb[p].payload.signature.raw
           /\ cb'[p].result.error # "Invalid wallet signature"]_vars

\* the challenge handleWalletCallback recomputes from a stored record
RecordChallenge(record) ==
    buildWalletSignatureChallenge(record.connectionId, record.userId,
                                  record.chatId, record.expiresAt)

\* C32: in every reachable state a connection record carries a walletAddress
\* if and only if its status is completed, and the walletAddress is the one
\* of a handleWalletCallback call for the record that returned success with
\* that wallet's signature over the record's challenge.
C32_AddressIffCompleted ==
    \A id \in DOMAIN Store :
        /\ (Store[id].walletAddress # NoWallet) <=> (Store[id].status = "completed")
        /\ (Store[id].walletAddress # NoWallet)
           => \E p \in Callbacks :
                 /\ Done(p) /\ cb[p].result.success
                 /\ cb[p].payload.connectionId = id
                 /\ cb[p].payload.walletAddress = Store[id].walletAddress
                 /\ cb[p].payload.signature.signer = Store[id].walletAddress
                 /\ cb[p].payload.signature.message = RecordChallenge(Store[id])

\* C33: every link a createConnectionRequest call has returned, by creating
\* the record or by reusing it (from another chat included), carries the
\* challenge handleWalletCallback recomputes from the stored record and a
\* connToken with the record's connectionId, userId and chatId and with the
\* record's expiresAt as exp; a wallet's signature over the link's challenge
\* passes the verification against the record, and no call with a link's
\* payload fails on the payload's ids or on the signature.
C33_LinkMatchesRecord ==
    /\ \A c \in CreateCalls :
          (create[c].pc = "done" /\ create[c].url.connectionId \in DOMAIN Store)
          => LET url == create[c].url
                 record == Store[url.connectionId]
             IN  /\ url.challenge = RecordChallenge(record)
                 /\ url.connToken.encodedPayload =
                       [connectionId |-> record.connectionId,
                        userId |-> record.userId, chatId |-> record.chatId,
                        exp |-> record.expiresAt]
                 /\ \A k \in Keys :
                       verifyWalletSignature(k, Sign(k, url.challenge),
                                             RecordChallenge(record))
    /\ \A p \in Callbacks :
          Done(p) => cb[p].result.error \notin
                        {"Connection payload mismatch", "Invalid wallet signature"}

\* a call from another chat has returned the link of the user's pending
\* record, and a handleWalletCallback call with that link's payload has
\* returned success
C33_Witness ==
    \E c \in CreateCalls : \E p \in Callbacks :
        /\ create[c].pc = "done" /\ ~create[c].isNew
        /\ create[c].chatId # create[c].url.chatId
        /\ Done(p) /\ cb[p].result.success
        /\ cb[p].payload.connToken = create[c].url.connToken
        /\ cb[p].payload.signature.message = create[c].url.challenge

\* C34: a handleWalletCallback call that returns success leaves the wallet
\* record it added with the balance read from the chain and with transaction
\* entries of the chain's history only, leaves the balance and the history of
\* a wallet record it reactivated as they were, and changes the balance and
\* the history of no other wallet record.
C34_BalanceAndHistoryKept ==
    [][\A p \in Callbacks : SuccessStep(p) =>
          LET address == cb[p].payload.walletAddress
              walletId == IF cb[p].hasExisting THEN cb[p].existingId ELSE p
              entries == ledger'[walletId].transactions
              history == ChainHistory(address)
          IN  /\ \A w \in WalletIds \ {walletId} : ledger'[w] = ledger[w]
              /\ IF cb[p].hasExisting
                 THEN ledger'[walletId] = ledger[walletId]
                 ELSE /\ ledger'[walletId].balance = ChainBalance(address)
                      /\ \A i \in 1..Len(entries) :
                            \E j \in 1..Len(history) : entries[i] = history[j]]_vars

\* C35: when a handleWalletCallback call that found its record at the lookup
\* returns success, the record, if the Store still holds it, has status
\* completed, also when the write of completeConnection failed: success is
\* never returned while the record is pending.
C35_SuccessLeavesNoPending ==
    [][\A p \in Callbacks :
          (SuccessStep(p) /\ cb[p].hasConn)
          => LET connectionId == cb[p].payload.connectionId
             IN  connectionId \in DOMAIN Store'
                 => Store'[connectionId].status = "completed"]_vars

\* call p returns a failure in this step
FailStep(p) == cb[p].pc # "done" /\ cb'[p].pc = "done" /\ ~cb'[p].result.success

\* C36: a handleWalletCallback call that returns {success: false} has written
\* nothing: the step at which it returns changes no connection record and no
\* wallet record, and once it has returned no wallet record carries the id the
\* call would have given to a new wallet.
C36_FailureWritesNothing ==
    [][\A p \in Callbacks :
          /\ FailStep(p) => UNCHANGED <<connections, dbConnections, wallets, ledger>>
          /\ (cb'[p].pc = "done" /\ ~cb'[p].result.success)
             => \A u \in WalletOwners : \A i \in 1..Len(wallets'[u]) :
                   wallets'[u][i].id # p]_vars

\* the record of connectionId in whichever backend holds it
Stored(connectionId) ==
    IF connectionId \in DOMAIN connections THEN connections[connectionId]
    ELSE IF connectionId \in DOMAIN dbConnections THEN dbConnections[connectionId]
    ELSE NullConn

\* C37: the record a createConnectionRequest call has stored is returned by
\* getPendingConnection and by getPendingConnectionByUser for its user as long
\* as it is pending and not expired, whatever connect() and bootstrap() calls
\* were made since, retries of the document store after a fallback to the
\* memory backend included.
C37_RecordStaysVisible ==
    \A c \in CreateCalls :
        (create[c].pc = "done" /\ create[c].isNew)
        => LET connectionId == create[c].url.connectionId
               record == Stored(connectionId)
           IN  (record.status = "pending" /\ record.expiresAt > now)
               => /\ getPendingConnection(connectionId) = record
                  /\ connectionId \in PendingByUser(record.userId)

\* the connect() calls whose _connectInternal is at an await
InFlight == {c \in ConnectCalls : connectCall[c].pc \in {"clientConnect", "ping"}}

\* C38: at most one _connectInternal is in flight at any time, connect() calls
\* made while it is share its promise; at the step a connect() call resolves
\* exactly one backend is selected (memoryMode with db null, or db set with
\* memoryMode false); and no connect() call rejects, whatever attempt failed.
C38_SingleFlightConnect ==
    [][/\ Cardinality(InFlight') <= 1
       /\ \A c \in ConnectCalls :
             /\ connectCall'[c].pc # "rejected"
             /\ connectCall'[c].pc = "joined" => connectCall'[c].promise \in InFlight'
             /\ (connectCall[c].pc # "resolved" /\ connectCall'[c].pc = "resolved")
                => \/ memoryMode' /\ ~db'
                   \/ ~memoryMode' /\ db']_vars

\* two connect() calls overlapped, the second awaited the first one's attempt,
\* the attempt failed, and both calls have resolved on the memory backend
C38_Witness ==
    \E c, d \in ConnectCalls :
        /\ c # d
        /\ connectCall[c].pc = "resolved" /\ connectCall[c].promise = c
        /\ connectCall[d].pc = "resolved" /\ connectCall[d].promise = c
        /\ memoryMode /\ ~db

====
